---- MODULE Spec2Model ----
(***************************************************************************)
(* Model of the caching layer of Spendings-Control: the read-through       *)
(* memoizer (redis_cache), the pattern-based invalidation helpers and the  *)
(* report image cache, together with the repository operations that use    *)
(* them.  The Redis store is one key-value map shared by all of them.      *)
(*                                                                         *)
(* A key is a sequence of tokens.  A token is a word made of letters and   *)
(* underscores (kept whole: no pattern of the program splits a word), the  *)
(* delimiter ":" or one decimal digit, so that the substring semantics of  *)
(* the glob patterns "*{user_id}*" over the decimal form of the arguments  *)
(* is kept.                                                                *)
(***************************************************************************)
EXTENDS Integers, Sequences, FiniteSets, TLC

VARIABLES
    categories,      \* rows of table categories (store of record)
    expenses,        \* rows of table expenses (store of record)
    nextCategoryId,  \* autoincrement of categories.id
    nextExpenseId,   \* autoincrement of expenses.id
    cache,           \* the Redis store: key -> stored entry
    last,            \* the last completed call, with its outcome
    userRows,        \* rows of table users (store of record)
    pending,         \* the call of the wrapper that is in flight, if any
    inflight,        \* the calls of the wrapper of two concurrent requests
    ttl              \* the expiry that Redis keeps for each key

vars == <<categories, expenses, nextCategoryId, nextExpenseId, cache, last,
          userRows, pending, inflight, ttl>>

(***************************************************************************)
(* Bounds of the model.                                                    *)
(***************************************************************************)
MaxExpenses == 1
MaxCategories == 2
MaxCacheEntries == 1
MaxImages == 1

\* the report images that the store holds at most where only images are
\* followed
MaxStoredImages == 2

\* the granularity of time, in seconds: every expire is a multiple of it
TimeUnit == 300

Users == {1, 12}
\* the users, years and months of the report images; a user id is any
\* integer that Telegram gives out, and may read like a year
ImageUsers == {1, 2024}
ImageYears == {2023, 2024}
ImageMonths == {3, 4}
ReportTypes == {"yearly", "monthly", "daily"}
\* the session objects of two requests
SessionObjects == {1, 2}
\* two requests that the event loop runs concurrently
Requests == {1, 2}
Years == {2024}
Months == {3}
Days == {7}
Amounts == {0, 5}
CategoryNames == {"Food", "Other"}

\* Python's None for an optional integer argument.
None == -1

\* datetime.now().year
CurrentYear == 2024

(***************************************************************************)
(* str() of a non-negative integer, as a sequence of digit tokens.         *)
(***************************************************************************)
DigitChars == <<"0", "1", "2", "3", "4", "5", "6", "7", "8", "9">>

RECURSIVE Str(_)
Str(n) == IF n < 10 THEN <<DigitChars[n + 1]>>
          ELSE Str(n \div 10) \o <<DigitChars[(n % 10) + 1]>>

\* ":".join(parts)
RECURSIVE Join(_)
Join(parts) == IF Len(parts) = 0 THEN <<>>
               ELSE IF Len(parts) = 1 THEN parts[1]
               ELSE parts[1] \o <<":">> \o Join(Tail(parts))

\* Keyword names in sorted order, as sorted(kwargs.items()) orders them.
KwOrder == <<"category_id", "day", "limit", "month", "user_id", "year">>

\* kwargs is a function from keyword names to integers.
SortedKw(kwargs) == SelectSeq(KwOrder, LAMBDA n : n \in DOMAIN kwargs)

(***************************************************************************)
(* The wrapped operations: prefix and function name of each decorator.     *)
(***************************************************************************)
Prefix(fn) ==
    CASE fn = "get_expenses_by_date" -> "expenses_by_date"
      [] fn = "get_expense_by_id" -> "expense"
      [] fn = "get_daily_expenses" -> "daily_expenses"
      [] fn = "get_monthly_expenses" -> "monthly_expenses"
      [] fn = "get_yearly_expenses" -> "yearly_expenses"
      [] fn = "get_last_expenses" -> "last_expenses"
      [] fn = "get_unique_years" -> "unique_years"
      [] fn = "get_total_spent" -> "total_spent"
      [] fn = "get_user_categories" -> "categories"
      [] fn = "get_category_by_id" -> "category"
      [] fn = "get_category_statistics" -> "category_stats"

\* The default key of redis_cache.wrapper: the leading session is dropped
\* (cache_args), then prefix, name, str(arg)..., "k:v" sorted by k.
BuildKey(fn, cache_args, kwargs) ==
    Join(<<<<Prefix(fn)>>, <<fn>>>>
         \o [i \in 1..Len(cache_args) |-> Str(cache_args[i])]
         \o [i \in 1..Len(SortedKw(kwargs)) |->
                <<SortedKw(kwargs)[i], ":">> \o Str(kwargs[SortedKw(kwargs)[i]])])

\* A call of a wrapped operation: the session is always passed first.
Call(fn, pos, kw) == [fn |-> fn, pos |-> pos, kw |-> kw]
NoKw == [n \in {} |-> 0]
KeyOf(call) == BuildKey(call.fn, call.pos, call.kw)

(***************************************************************************)
(* Redis KEYS pattern matching: "*" matches any run of tokens.             *)
(***************************************************************************)
RECURSIVE GlobMatch(_, _)
GlobMatch(p, s) ==
    IF p = <<>> THEN s = <<>>
    ELSE IF p[1] = "*"
         THEN GlobMatch(Tail(p), s) \/ (s # <<>> /\ GlobMatch(p, Tail(s)))
         ELSE s # <<>> /\ s[1] = p[1] /\ GlobMatch(Tail(p), Tail(s))

\* redis.keys(pattern) on a store
Keys(store, pattern) == {k \in DOMAIN store : GlobMatch(pattern, k)}

\* redis.delete(*keys) on a store
Delete(store, ks) == [k \in (DOMAIN store) \ ks |-> store[k]]

\* What a call did, in the order it did it: session.commit(), redis.set,
\* redis.delete, a store command that raised (cmd: which command; n: at
\* which pattern of an invalidation, 0 elsewhere), and logger.error(e).
Commit == [c |-> "commit", keys |-> {}, e |-> "", n |-> 0]
Set(k) == [c |-> "set", keys |-> {k}, e |-> "", n |-> 0]
Del(ks) == [c |-> "delete", keys |-> ks, e |-> "", n |-> 0]
StoreError(cmd, n) == [c |-> "raised", keys |-> {}, e |-> cmd, n |-> n]
Logged(e) == [c |-> "logger.error", keys |-> {}, e |-> e, n |-> 0]

\* CommitThen with the commit after the invalidation.
CommitThen_InvalidateFirst(cmds) == cmds \o <<Commit>>

\* await session.commit(), then the invalidation that follows it.
CommitThen(cmds) == <<Commit>> \o cmds

\* The keys of the report images in a store, and the keys of the entries of
\* the wrapped operations.
ImageKeys(store) == {k \in DOMAIN store : k[1] = "report_image"}
DataKeys(store) == (DOMAIN store) \ ImageKeys(store)

\* The store holds no more entries than the model follows.
Fits(store) == /\ Cardinality(DataKeys(store)) <= MaxCacheEntries
               /\ Cardinality(ImageKeys(store)) <= MaxImages

\* for pattern in patterns: keys = redis.keys(pattern); if keys: redis.delete(*keys)
RECURSIVE DeletePatterns(_, _)
DeletePatterns(store, patterns) ==
    IF patterns = <<>> THEN store
    ELSE DeletePatterns(Delete(store, Keys(store, patterns[1])), Tail(patterns))

\* The DELETE commands that this loop issues: one for each pattern that has
\* keys when its turn comes.
DeleteIfKeys_NoGuard(keys) == <<Del(keys)>>
\* if keys: await redis.delete(*keys)
DeleteIfKeys(keys) == IF keys # {} THEN <<Del(keys)>> ELSE <<>>

RECURSIVE DeleteCmds(_, _)
DeleteCmds(store, patterns) ==
    IF patterns = <<>> THEN <<>>
    ELSE DeleteIfKeys(Keys(store, patterns[1]))
         \o DeleteCmds(Delete(store, Keys(store, patterns[1])), Tail(patterns))

(***************************************************************************)
(* The store of record: the queries of the repositories.  An expense row   *)
(* is [id, user_id, category_id, day, month, year, amount]; a category row *)
(* is [id, user_id, name].  description and created_at take no part in any *)
(* query condition or key and are left out of the rows.                    *)
(***************************************************************************)
RECURSIVE SumAmounts(_)
SumAmounts(S) == IF S = {} THEN 0
                 ELSE LET e == CHOOSE x \in S : TRUE
                      IN e.amount + SumAmounts(S \ {e})

CategoryRow(cats, cid) == CHOOSE c \in cats : c.id = cid

\* the dictionary built for an expense by get_expenses_by_date / get_last_expenses
ExpenseDict(cats, e) ==
    [id |-> e.id, user_id |-> e.user_id, category_id |-> e.category_id,
     day |-> e.day, month |-> e.month, year |-> e.year, amount |-> e.amount,
     category |-> [id |-> e.category_id, name |-> CategoryRow(cats, e.category_id).name]]

\* The row of an expense after expense.category_id = category_id.
WithCategory(e, category_id) ==
    [id |-> e.id, user_id |-> e.user_id, category_id |-> category_id,
     day |-> e.day, month |-> e.month, year |-> e.year, amount |-> e.amount]

\* What update_expense_category returns: the new category_id with the
\* category object that was loaded before the update.
UpdatedDict(cats, e, category_id) ==
    [id |-> e.id, user_id |-> e.user_id, category_id |-> category_id,
     day |-> e.day, month |-> e.month, year |-> e.year, amount |-> e.amount,
     category |-> [id |-> e.category_id, name |-> CategoryRow(cats, e.category_id).name]]

\* Outcomes of an operation: a value (json: whether json.dumps accepts it),
\* None, or a raised exception.
Val(v) == [t |-> "val", v |-> v, json |-> TRUE]
Orm(v) == [t |-> "val", v |-> v, json |-> FALSE]
NoneResult == [t |-> "none", v |-> {}, json |-> TRUE]
Raise(e) == [t |-> "raise", v |-> e, json |-> TRUE]

get_expenses_by_date(cats, exps, user_id, day, month, year) ==
    Val({ExpenseDict(cats, e) : e \in {x \in exps : /\ x.user_id = user_id
                                                    /\ x.day = day
                                                    /\ x.month = month
                                                    /\ x.year = year}})

get_expense_by_id(cats, exps, expense_id) ==
    IF \E e \in exps : e.id = expense_id
    THEN LET e == CHOOSE x \in exps : x.id = expense_id
         IN Val([id |-> e.id, user_id |-> e.user_id, category_id |-> e.category_id,
                 day |-> e.day, month |-> e.month, year |-> e.year,
                 amount |-> e.amount,
                 category |-> [id |-> e.category_id,
                               name |-> CategoryRow(cats, e.category_id).name,
                               user_id |-> CategoryRow(cats, e.category_id).user_id]])
    ELSE NoneResult

CatName(cats, e) == CategoryRow(cats, e.category_id).name

get_daily_expenses(cats, exps, user_id, year, month) ==
    LET sel == {e \in exps : e.user_id = user_id /\ e.year = year /\ e.month = month}
    IN Val({[day |-> g[1], category |-> g[2],
             total |-> SumAmounts({e \in sel : e.day = g[1] /\ CatName(cats, e) = g[2]})]
            : g \in {<<e.day, CatName(cats, e)>> : e \in sel}})

get_monthly_expenses(cats, exps, user_id, year, month) ==
    LET sel == {e \in exps : e.user_id = user_id /\ e.year = year /\ e.month = month}
    IN Val({[category |-> n,
             total |-> SumAmounts({e \in sel : CatName(cats, e) = n})]
            : n \in {CatName(cats, e) : e \in sel}})

get_yearly_expenses(cats, exps, user_id, year) ==
    LET sel == {e \in exps : e.user_id = user_id /\ e.year = year}
    IN Val({[month |-> g[1], category |-> g[2],
             total |-> SumAmounts({e \in sel : e.month = g[1] /\ CatName(cats, e) = g[2]})]
            : g \in {<<e.month, CatName(cats, e)>> : e \in sel}})

\* ORDER BY year DESC, month DESC, day DESC; rows of equal date are taken
\* in id order.
Later(a, b) ==
    LET ka == a.year * 10000 + a.month * 100 + a.day
        kb == b.year * 10000 + b.month * 100 + b.day
    IN ka > kb \/ (ka = kb /\ a.id < b.id)

RECURSIVE OrderLast(_, _)
OrderLast(S, limit) ==
    IF S = {} \/ limit = 0 THEN <<>>
    ELSE LET e == CHOOSE x \in S : \A z \in S \ {x} : Later(x, z)
         IN <<e>> \o OrderLast(S \ {e}, limit - 1)

get_last_expenses(cats, exps, user_id, limit) ==
    LET rows == OrderLast({e \in exps : e.user_id = user_id}, limit)
    IN Val([i \in 1..Len(rows) |-> ExpenseDict(cats, rows[i])])

RECURSIVE Ascending(_)
Ascending(S) == IF S = {} THEN <<>>
                ELSE LET m == CHOOSE x \in S : \A z \in S : x <= z
                     IN <<m>> \o Ascending(S \ {m})

get_unique_years(exps, user_id) ==
    LET years == Ascending({e.year : e \in {x \in exps : x.user_id = user_id}})
    IN Val(IF years # <<>> THEN years ELSE <<CurrentYear>>)

get_total_spent(exps, user_id) ==
    Val(SumAmounts({e \in exps : e.user_id = user_id}))

\* result.scalars().all(): a list of Category objects, which json.dumps
\* rejects unless the list is empty.
get_user_categories(cats, user_id) ==
    LET rows == {c \in cats : c.user_id = user_id}
    IN IF rows = {} THEN Val(rows) ELSE Orm(rows)

\* scalar_one_or_none(): a Category object or None
get_category_by_id(cats, category_id, user_id) ==
    IF \E c \in cats : c.id = category_id /\ c.user_id = user_id
    THEN Orm(CHOOSE c \in cats : c.id = category_id /\ c.user_id = user_id)
    ELSE NoneResult

(***************************************************************************)
(* json.dumps / json.loads of a serializable result.                       *)
(***************************************************************************)
dumps(v) == [json |-> v]
loads(s) == s.json

\* A lookup that would answer from the arguments alone, without the store
\* of record.
cached_get_category_by_id_NoLookup(store, cats, category_id, user_id) ==
    Orm([id |-> category_id, user_id |-> user_id, name |-> ""])

\* What a call of the wrapper returns for get_category_by_id when it is
\* made inside another repository operation: the cached value on a hit,
\* the row of the store of record otherwise (a Category object is never
\* stored: json.dumps rejects it and the except branch reloads it).
cached_get_category_by_id(store, cats, category_id, user_id) ==
    LET key == BuildKey("get_category_by_id", <<category_id, user_id>>, NoKw)
    IN IF key \in DOMAIN store THEN Val(loads(store[key].data))
       ELSE get_category_by_id(cats, category_id, user_id)

get_category_statistics(store, cats, exps, user_id, category_id) ==
    LET category == cached_get_category_by_id(store, cats, category_id, user_id)
        sel == {e \in exps : e.user_id = user_id /\ e.category_id = category_id}
        total_spent == SumAmounts(sel)
        expense_count == Cardinality(sel)
    IN IF category.t = "none" THEN Raise("ValueError: Invalid category")
       ELSE Val([name |-> category.v.name,
                 total_spent |-> total_spent,
                 expense_count |-> expense_count,
                 average_amount |-> IF expense_count > 0
                                    THEN <<total_spent, expense_count>>
                                    ELSE <<0, 1>>])

\* The argument bound to parameter number i (or keyword name) of a call.
Arg(call, i, name, default) ==
    IF i <= Len(call.pos) THEN call.pos[i]
    ELSE IF name \in DOMAIN call.kw THEN call.kw[name]
    ELSE default

\* func(*args, **kwargs): one invocation of the wrapped operation.  dbfail:
\* the store of record raises during this invocation.
Loader(store, cats, exps, call, dbfail) ==
    IF dbfail THEN Raise("DBError")
    ELSE CASE call.fn = "get_expenses_by_date" ->
                get_expenses_by_date(cats, exps, call.pos[1], call.pos[2], call.pos[3], call.pos[4])
           [] call.fn = "get_expense_by_id" -> get_expense_by_id(cats, exps, call.pos[1])
           [] call.fn = "get_daily_expenses" ->
                get_daily_expenses(cats, exps, call.pos[1], call.pos[2], call.pos[3])
           [] call.fn = "get_monthly_expenses" ->
                get_monthly_expenses(cats, exps, call.pos[1], call.pos[2], call.pos[3])
           [] call.fn = "get_yearly_expenses" ->
                get_yearly_expenses(cats, exps, call.pos[1], call.pos[2])
           [] call.fn = "get_last_expenses" ->
                get_last_expenses(cats, exps, call.pos[1], Arg(call, 2, "limit", 5))
           [] call.fn = "get_unique_years" -> get_unique_years(exps, call.pos[1])
           [] call.fn = "get_total_spent" -> get_total_spent(exps, call.pos[1])
           [] call.fn = "get_user_categories" -> get_user_categories(cats, call.pos[1])
           [] call.fn = "get_category_by_id" ->
                get_category_by_id(cats, call.pos[1], call.pos[2])
           [] call.fn = "get_category_statistics" ->
                get_category_statistics(store, cats, exps, call.pos[1], call.pos[2])

(***************************************************************************)
(* redis_cache.wrapper: one call of a wrapped operation.  The result is    *)
(* the store afterwards, the outcome for the caller, the number of         *)
(* invocations of the wrapped operation, whether the GET hit and whether   *)
(* an invocation of the wrapped operation raised.                          *)
(***************************************************************************)
Entry(call, v) == [data |-> dumps(v), call |-> call]

\* A wrapper whose except branch would return what the first invocation
\* returned, without a second invocation.
wrapper_at_NoRetry(store, cats, exps, call, cache_key, dbfail1, dbfail2) ==
       IF cache_key \in DOMAIN store
       THEN [store |-> store, out |-> Val(loads(store[cache_key].data)),
             loads |-> 0, hit |-> TRUE, raised |-> FALSE, cmds |-> <<>>]
       ELSE LET result == Loader(store, cats, exps, call, dbfail1)
            IN IF result.t = "raise" \/ ~result.json
               THEN [store |-> store, out |-> result, loads |-> 1, hit |-> FALSE,
                     raised |-> result.t = "raise",
                     cmds |-> <<Logged(IF result.t = "raise" THEN result.v
                                       ELSE "TypeError")>>]
               ELSE IF result.t = "none"
               THEN [store |-> store, out |-> result, loads |-> 1, hit |-> FALSE,
                     raised |-> FALSE, cmds |-> <<>>]
               ELSE [store |-> (cache_key :> Entry(call, result.v)) @@ store,
                     out |-> result, loads |-> 1, hit |-> FALSE, raised |-> FALSE,
                     cmds |-> <<Set(cache_key)>>]

\* A wrapper that would store None as any other result.
wrapper_at_CachesNone(store, cats, exps, call, cache_key, dbfail1, dbfail2) ==
       IF cache_key \in DOMAIN store
       THEN [store |-> store, out |-> Val(loads(store[cache_key].data)),
             loads |-> 0, hit |-> TRUE, raised |-> FALSE, cmds |-> <<>>]
       ELSE LET result == Loader(store, cats, exps, call, dbfail1)
            IN IF result.t = "raise" \/ ~result.json
               THEN [store |-> store,
                     out |-> Loader(store, cats, exps, call, dbfail2),
                     loads |-> 2, hit |-> FALSE,
                     raised |-> (result.t = "raise"
                                 \/ Loader(store, cats, exps, call, dbfail2).t = "raise"),
                     cmds |-> <<Logged(IF result.t = "raise" THEN result.v
                                       ELSE "TypeError")>>]
               ELSE [store |-> (cache_key :> Entry(call, result.v)) @@ store,
                     out |-> result, loads |-> 1, hit |-> FALSE, raised |-> FALSE,
                     cmds |-> <<Set(cache_key)>>]

\* The wrapper from its try statement on, cache_key being built.
wrapper_at(store, cats, exps, call, cache_key, dbfail1, dbfail2) ==
       IF cache_key \in DOMAIN store
       THEN [store |-> store, out |-> Val(loads(store[cache_key].data)),
             loads |-> 0, hit |-> TRUE, raised |-> FALSE, cmds |-> <<>>]
       ELSE LET result == Loader(store, cats, exps, call, dbfail1)
            IN IF result.t = "raise" \/ ~result.json
               THEN \* except Exception: return await func(*args, **kwargs)
                    [store |-> store,
                     out |-> Loader(store, cats, exps, call, dbfail2),
                     loads |-> 2, hit |-> FALSE,
                     raised |-> (result.t = "raise"
                                 \/ Loader(store, cats, exps, call, dbfail2).t = "raise"),
                     cmds |-> <<Logged(IF result.t = "raise" THEN result.v
                                       ELSE "TypeError")>>]
               ELSE IF result.t = "none"
               THEN [store |-> store, out |-> result, loads |-> 1, hit |-> FALSE,
                     raised |-> FALSE, cmds |-> <<>>]
               ELSE [store |-> (cache_key :> Entry(call, result.v)) @@ store,
                     out |-> result, loads |-> 1, hit |-> FALSE, raised |-> FALSE,
                     cmds |-> <<Set(cache_key)>>]

wrapper(store, cats, exps, call, dbfail1, dbfail2) ==
    wrapper_at(store, cats, exps, call, KeyOf(call), dbfail1, dbfail2)

(***************************************************************************)
(* The key of a call as the caller writes it.  args are the positional     *)
(* arguments, a session object or an integer each; kwargs are the keyword  *)
(* arguments in the order they are written, which is the order of the      *)
(* items of the dictionary.                                                *)
(***************************************************************************)
Session(i) == [type |-> "AsyncSession", v |-> i]
Integer(n) == [type |-> "int", v |-> n]
Kw(k, v) == [k |-> k, v |-> v]

\* str(arg); object.__repr__ for a session object
str(arg) == IF arg.type = "AsyncSession"
            THEN <<"<AsyncSession object at ">> \o Str(arg.v) \o <<">">>
            ELSE Str(arg.v)

CacheArgs_KeepSession(args) == args
\* cache_args = args[1:] if args and isinstance(args[0], AsyncSession) else args
CacheArgs(args) ==
    IF Len(args) > 0 /\ args[1].type = "AsyncSession" THEN Tail(args) ELSE args

\* the place of a keyword name in the order of strings
Rank(name) == CHOOSE i \in 1..Len(KwOrder) : KwOrder[i] = name

RECURSIVE Insert(_, _)
Insert(item, seq) ==
    IF Len(seq) = 0 THEN <<item>>
    ELSE IF Rank(item.k) <= Rank(seq[1].k) THEN <<item>> \o seq
    ELSE <<seq[1]>> \o Insert(item, Tail(seq))

\* sorted(kwargs.items())
RECURSIVE sorted(_)
sorted(items) == IF Len(items) = 0 THEN <<>>
                 ELSE Insert(items[1], sorted(Tail(items)))

\* cache_key of redis_cache.wrapper
wrapper_cache_key(fn, args, kwargs) ==
    Join(<<<<Prefix(fn)>>, <<fn>>>>
         \o [i \in 1..Len(CacheArgs(args)) |-> str(CacheArgs(args)[i])]
         \o [i \in 1..Len(kwargs) |->
                <<sorted(kwargs)[i].k, ":">> \o Str(sorted(kwargs)[i].v)])

invalidate_cache_key_Unsorted(fn, args, kwargs) ==
    Join(<<<<Prefix(fn)>>, <<fn>>>>
         \o [i \in 1..Len(CacheArgs(args)) |-> str(CacheArgs(args)[i])]
         \o [i \in 1..Len(kwargs) |-> <<kwargs[i].k, ":">> \o Str(kwargs[i].v)])
\* cache_key of invalidate_cache
invalidate_cache_key(fn, args, kwargs) ==
    Join(<<<<Prefix(fn)>>, <<fn>>>>
         \o [i \in 1..Len(CacheArgs(args)) |-> str(CacheArgs(args)[i])]
         \o [i \in 1..Len(kwargs) |->
                <<sorted(kwargs)[i].k, ":">> \o Str(sorted(kwargs)[i].v)])

\* The argument that Python binds to the i-th parameter after the session,
\* called name; None when the call does not pass it.
Passed(args, kwargs, i, name) ==
    IF i + 1 <= Len(args) THEN args[i + 1].v
    ELSE IF \E j \in 1..Len(kwargs) : kwargs[j].k = name
    THEN kwargs[CHOOSE j \in 1..Len(kwargs) : kwargs[j].k = name].v
    ELSE None

\* A call of get_last_expenses(session, user_id, limit=5) as written, with
\* the arguments that its parameters are bound to (pos, kw).
RawCall(fn, args, kwargs) ==
    [fn |-> fn,
     pos |-> <<Passed(args, kwargs, 1, "user_id")>>,
     kw |-> IF Passed(args, kwargs, 2, "limit") = None THEN NoKw
            ELSE [limit |-> Passed(args, kwargs, 2, "limit")],
     args |-> args, kwargs |-> kwargs]

\* invalidate_cache building its key without the function name.
invalidate_cache_NoName(store, fn, cache_args, kwargs) ==
    Delete(store, {Join(<<<<Prefix(fn)>>>>
                        \o [i \in 1..Len(cache_args) |-> Str(cache_args[i])])})

\* wrapper.invalidate_cache(session, *args)
invalidate_cache(store, fn, cache_args, kwargs) ==
    Delete(store, {BuildKey(fn, cache_args, kwargs)})

\* The DELETE that invalidate_cache issues, whether the key is stored or not.
invalidate_cache_cmds(fn, cache_args, kwargs) ==
    <<Del({BuildKey(fn, cache_args, kwargs)})>>

(***************************************************************************)
(* report_image_cache.py and cache_helpers.py                              *)
(***************************************************************************)
get_image_key_NoMonth(report_type, user_id, year, month) ==
    <<"report_image", ":", report_type, ":">> \o Str(user_id) \o <<":">> \o Str(year)
get_image_key(report_type, user_id, year, month) ==
    IF month # None
    THEN <<"report_image", ":", report_type, ":">> \o Str(user_id) \o <<":">>
         \o Str(year) \o <<":">> \o Str(month)
    ELSE <<"report_image", ":", report_type, ":">> \o Str(user_id) \o <<":">>
         \o Str(year)

\* ReportImagePatterns with the patterns of a year used for a month, too.
ReportImagePatterns_AnyMonth(user_id, year, month) ==
    IF year = None
    THEN << <<"report_image", ":", "*", ":">> \o Str(user_id) \o <<":", "*">> >>
    ELSE << <<"report_image", ":", "*", ":">> \o Str(user_id) \o <<":">>
             \o Str(year) \o <<":", "*">>,
            <<"report_image", ":", "yearly", ":">> \o Str(user_id) \o <<":">>
             \o Str(year) >>

\* The patterns of invalidate_report_images, in the order they are deleted.
ReportImagePatterns(user_id, year, month) ==
    IF year = None
    THEN << <<"report_image", ":", "*", ":">> \o Str(user_id) \o <<":", "*">> >>
    ELSE IF month = None
    THEN << <<"report_image", ":", "*", ":">> \o Str(user_id) \o <<":">>
             \o Str(year) \o <<":", "*">>,
            <<"report_image", ":", "yearly", ":">> \o Str(user_id) \o <<":">>
             \o Str(year) >>
    ELSE << <<"report_image", ":", "daily", ":">> \o Str(user_id) \o <<":">>
             \o Str(year) \o <<":">> \o Str(month),
            <<"report_image", ":", "monthly", ":">> \o Str(user_id) \o <<":">>
             \o Str(year) \o <<":">> \o Str(month),
            <<"report_image", ":", "yearly", ":">> \o Str(user_id) \o <<":">>
             \o Str(year) >>

invalidate_report_images(store, user_id, year, month) ==
    DeletePatterns(store, ReportImagePatterns(user_id, year, month))

\* Python truth value of an optional integer: None and 0 are false.
Truthy(n) == n # None /\ n # 0

\* ExpensePatterns with the closing wildcard of the last_expenses pattern
\* left out.
ExpensePatterns_NoTrailingStar(user_id, year, month) ==
    << <<"total_spent", ":", "*">> \o Str(user_id) \o <<"*">>,
       <<"unique_years", ":", "*">> \o Str(user_id) \o <<"*">>,
       <<"last_expenses", ":", "*">> \o Str(user_id) >>
    \o (IF Truthy(year)
        THEN << <<"yearly_expenses", ":", "*">> \o Str(user_id) \o <<"*">>
                 \o Str(year) \o <<"*">> >>
             \o (IF Truthy(month)
                 THEN << <<"monthly_expenses", ":", "*">> \o Str(user_id) \o <<"*">>
                          \o Str(year) \o <<"*">> \o Str(month) \o <<"*">>,
                         <<"daily_expenses", ":", "*">> \o Str(user_id) \o <<"*">>
                          \o Str(year) \o <<"*">> \o Str(month) \o <<"*">>,
                         <<"expenses_by_date", ":", "*">> \o Str(user_id) \o <<"*">>
                          \o Str(year) \o <<"*">> \o Str(month) \o <<"*">> >>
                 ELSE <<>>)
        ELSE <<>>)

\* The patterns of invalidate_expense_caches, in the order they are deleted.
ExpensePatterns_NoNamespace(user_id, year, month) ==
    << <<"total_spent", ":", "*">> \o Str(user_id) \o <<"*">>,
       <<"unique_years", ":", "*">> \o Str(user_id) \o <<"*">>,
       <<"last_expenses", ":", "*">> \o Str(user_id) \o <<"*">> >>
    \o (IF Truthy(year)
        THEN << <<"*">> \o Str(user_id) \o <<"*">> \o Str(year) \o <<"*">> >>
        ELSE <<>>)
ExpensePatterns(user_id, year, month) ==
    << <<"total_spent", ":", "*">> \o Str(user_id) \o <<"*">>,
       <<"unique_years", ":", "*">> \o Str(user_id) \o <<"*">>,
       <<"last_expenses", ":", "*">> \o Str(user_id) \o <<"*">> >>
    \o (IF Truthy(year)
        THEN << <<"yearly_expenses", ":", "*">> \o Str(user_id) \o <<"*">>
                 \o Str(year) \o <<"*">> >>
             \o (IF Truthy(month)
                 THEN << <<"monthly_expenses", ":", "*">> \o Str(user_id) \o <<"*">>
                          \o Str(year) \o <<"*">> \o Str(month) \o <<"*">>,
                         <<"daily_expenses", ":", "*">> \o Str(user_id) \o <<"*">>
                          \o Str(year) \o <<"*">> \o Str(month) \o <<"*">>,
                         <<"expenses_by_date", ":", "*">> \o Str(user_id) \o <<"*">>
                          \o Str(year) \o <<"*">> \o Str(month) \o <<"*">> >>
                 ELSE <<>>)
        ELSE <<>>)

invalidate_expense_caches(store, user_id, year, month) ==
    invalidate_report_images(DeletePatterns(store, ExpensePatterns(user_id, year, month)),
                             user_id, year, month)

\* The DELETE commands that invalidate_report_images and
\* invalidate_expense_caches issue on a store.
invalidate_report_images_cmds(store, user_id, year, month) ==
    DeleteCmds(store, ReportImagePatterns(user_id, year, month))

invalidate_expense_caches_cmds(store, user_id, year, month) ==
    DeleteCmds(store, ExpensePatterns(user_id, year, month))
    \o invalidate_report_images_cmds(
          DeletePatterns(store, ExpensePatterns(user_id, year, month)),
          user_id, year, month)

(***************************************************************************)
(* The record of a completed call: op and args name the call and out is    *)
(* what the caller received.  For a call of the wrapper, key is the key it *)
(* used, hit whether the GET hit, loads how many times the wrapped         *)
(* operation was invoked, raised whether one of these invocations raised,  *)
(* and loads_before the loads of the call completed just before when that  *)
(* was a call of the wrapper with the same key (-1 otherwise).  For a      *)
(* write, before is the Redis store as it was when the call began and rows *)
(* the ids of the expense rows it wrote.  cmds is what the call did: its   *)
(* commits, the SET and DELETE commands it issued and the errors it logged.*)
(***************************************************************************)
\* The outcome as the record of a call keeps it: the value is filed under the
\* operation and the kind of outcome, values of different Python types being
\* never compared with one another.
Recorded(op, out) ==
    [t |-> out.t, json |-> out.json, v |-> (<<op, out.t>> :> out.v)]

\* The value that the call recorded in l returned or raised.
ValueOf(l) == l.out.v[<<l.op, l.out.t>>]

DoneWrite(op, args, out, r, rows) ==
    [op |-> op, args |-> args, out |-> Recorded(op, out), key |-> <<>>, hit |-> r.hit,
     loads |-> r.loads, loads_before |-> -1, raised |-> r.raised, before |-> cache,
     rows |-> rows, cmds |-> r.cmds]

NoRead == [hit |-> FALSE, loads |-> 0, raised |-> FALSE, cmds |-> <<>>]

\* A write that made no call of the wrapper and did cmds.
Did(cmds) == [hit |-> FALSE, loads |-> 0, raised |-> FALSE, cmds |-> cmds]

Done(op, args, out) == DoneWrite(op, args, out, NoRead, {})

DoneRead(call, r) ==
    [op |-> call.fn, args |-> call.pos, out |-> Recorded(call.fn, r.out),
     key |-> KeyOf(call),
     hit |-> r.hit, loads |-> r.loads,
     loads_before |-> IF last.key = KeyOf(call) THEN last.loads ELSE -1,
     raised |-> r.raised, before |-> <<>>, rows |-> {}, cmds |-> r.cmds]

\* What a call as written did: rows holds the call, before the store
\* before it.
DoneRaw(op, call, cache_key, r) ==
    [op |-> op, args |-> call.pos, out |-> Recorded(op, r.out), key |-> cache_key,
     hit |-> r.hit, loads |-> r.loads,
     loads_before |-> IF last.key = cache_key THEN last.loads ELSE -1,
     raised |-> r.raised, before |-> cache, rows |-> {call}, cmds |-> r.cmds]

\* No call of the wrapper is in flight.
Idle == [phase |-> "idle"]

Init ==
    /\ categories = {}
    /\ expenses = {}
    /\ nextCategoryId = 1
    /\ nextExpenseId = 1
    /\ cache = <<>>
    /\ last = [op |-> "init", args |-> <<>>, out |-> Recorded("init", NoneResult),
               key |-> <<>>,
               hit |-> FALSE, loads |-> 0, loads_before |-> -1, raised |-> FALSE,
               before |-> <<>>, rows |-> {}, cmds |-> <<>>]
    /\ userRows = {}
    /\ pending = Idle
    /\ inflight = [i \in Requests |-> Idle]
    /\ ttl = <<>>

CategoryIds == 1..MaxCategories
ExpenseIds == 1..MaxExpenses

\* The calls of wrapped operations that the handlers and keyboards make.
ReadCalls ==
    {Call("get_total_spent", <<u>>, NoKw) : u \in Users}
    \cup {Call("get_unique_years", <<u>>, NoKw) : u \in Users}
    \cup {Call("get_last_expenses", <<u>>, NoKw) : u \in Users}
    \cup {Call("get_last_expenses", <<u>>, [limit |-> 1]) : u \in Users}
    \cup {Call("get_yearly_expenses", <<u, y>>, NoKw) : u \in Users, y \in Years}
    \cup {Call("get_monthly_expenses", <<u, y, m>>, NoKw) :
            u \in Users, y \in Years, m \in Months}
    \cup {Call("get_daily_expenses", <<u, y, m>>, NoKw) :
            u \in Users, y \in Years, m \in Months}
    \cup {Call("get_expenses_by_date", <<u, d, m, y>>, NoKw) :
            u \in Users, d \in Days, m \in Months, y \in Years}
    \cup {Call("get_expense_by_id", <<e>>, NoKw) : e \in ExpenseIds}
    \cup {Call("get_user_categories", <<u>>, NoKw) : u \in Users}
    \cup {Call("get_category_by_id", <<c, u>>, NoKw) : c \in CategoryIds, u \in Users}
    \cup {Call("get_category_statistics", <<u, c>>, NoKw) :
            u \in Users, c \in CategoryIds}

\* A call of a wrapped operation through redis_cache.wrapper.
Read(call, dbfail1, dbfail2) ==
    LET r == wrapper(cache, categories, expenses, call, dbfail1, dbfail2)
    IN /\ Fits(r.store)
       /\ cache' = r.store
       /\ last' = DoneRead(call, r)
       /\ UNCHANGED <<categories, expenses, nextCategoryId, nextExpenseId>>

\* An entry reaches the end of its time to live.
Expire(k) ==
    /\ k \in DOMAIN cache
    /\ cache' = Delete(cache, {k})
    /\ last' = Done("expire", <<>>, NoneResult)
    /\ UNCHANGED <<categories, expenses, nextCategoryId, nextExpenseId>>

(***************************************************************************)
(* expense_repository.py: the writes                                       *)
(***************************************************************************)
add_expense(user_id, day, month, year, amount, category_id) ==
    LET category == cached_get_category_by_id(cache, categories, category_id, user_id)
        expense == [id |-> nextExpenseId, user_id |-> user_id,
                    category_id |-> category_id, day |-> day, month |-> month,
                    year |-> year, amount |-> amount]
        args == <<user_id, day, month, year, amount, category_id>>
    IN IF amount <= 0
       THEN /\ last' = Done("add_expense", args, Raise("ValueError: Amount must be positive"))
            /\ UNCHANGED <<categories, expenses, nextCategoryId, nextExpenseId, cache>>
       ELSE IF category.t = "none"
       THEN /\ last' = Done("add_expense", args, Raise("ValueError: Invalid category"))
            /\ UNCHANGED <<categories, expenses, nextCategoryId, nextExpenseId, cache>>
       ELSE /\ nextExpenseId <= MaxExpenses
            /\ expenses' = expenses \cup {expense}
            /\ nextExpenseId' = nextExpenseId + 1
            /\ cache' = invalidate_expense_caches(cache, user_id, year, month)
            /\ last' = DoneWrite("add_expense", args, Val(expense.id),
                                Did(CommitThen(
                                      invalidate_expense_caches_cmds(cache, user_id, year,
                                                                     month))),
                                {expense.id})
            /\ UNCHANGED <<categories, nextCategoryId>>

update_expense_category(expense_id, category_id, user_id) ==
    LET args == <<expense_id, category_id, user_id>>
    IN IF ~\E e \in expenses : e.id = expense_id /\ e.user_id = user_id
       THEN /\ last' = Done("update_expense_category", args, NoneResult)
            /\ UNCHANGED <<categories, expenses, nextCategoryId, nextExpenseId, cache>>
       ELSE LET expense == CHOOSE e \in expenses : e.id = expense_id /\ e.user_id = user_id
                updated == WithCategory(expense, category_id)
            IN /\ expenses' = (expenses \ {expense}) \cup {updated}
               /\ cache' = invalidate_expense_caches(cache, user_id, expense.year, expense.month)
               \* expense.category is the object loaded before the update
               /\ last' = DoneWrite("update_expense_category", args,
                                   Val(UpdatedDict(categories, expense, category_id)),
                                   Did(CommitThen(
                                         invalidate_expense_caches_cmds(
                                           cache, user_id, expense.year, expense.month))),
                                   {expense_id})
               /\ UNCHANGED <<categories, nextCategoryId, nextExpenseId>>

\* The store after delete_expense_by_id, and what it returns.
delete_expense_by_id(expense_id, user_id) ==
    IF ~\E e \in expenses : e.id = expense_id /\ e.user_id = user_id
    THEN [exps |-> expenses, store |-> cache, out |-> FALSE, cmds |-> <<>>]
    ELSE LET expense == CHOOSE e \in expenses : e.id = expense_id /\ e.user_id = user_id
         IN [exps |-> expenses \ {expense},
             store |-> invalidate_expense_caches(cache, user_id, expense.year, expense.month),
             out |-> TRUE,
             cmds |-> CommitThen(
                        invalidate_expense_caches_cmds(cache, user_id, expense.year,
                                                       expense.month))]

\* handlers/deletion.py delete_expense: delete_expense_by_id, then the
\* expenses of today are read again to show what remains.
delete_expense(expense_id, user_id, today, dbfail1, dbfail2) ==
    LET d == delete_expense_by_id(expense_id, user_id)
        args == <<expense_id, user_id, today[1], today[2], today[3]>>
    IN IF d.out
       THEN LET r == wrapper(d.store, categories, d.exps,
                             Call("get_expenses_by_date",
                                  <<user_id, today[1], today[2], today[3]>>, NoKw),
                             dbfail1, dbfail2)
            IN /\ Fits(r.store)
               /\ expenses' = d.exps
               /\ cache' = r.store
               /\ last' = DoneWrite("delete_expense", args, r.out,
                                   [hit |-> r.hit, loads |-> r.loads, raised |-> r.raised,
                                    cmds |-> d.cmds \o r.cmds],
                                   {expense_id})
               /\ UNCHANGED <<categories, nextCategoryId, nextExpenseId>>
       ELSE /\ last' = Done("delete_expense", args, Raise("not found"))
            /\ UNCHANGED <<categories, expenses, nextCategoryId, nextExpenseId, cache>>

(***************************************************************************)
(* category_repository.py: the writes                                      *)
(***************************************************************************)
add_category(user_id, name) ==
    LET args == <<user_id>>
        category == [id |-> nextCategoryId, user_id |-> user_id, name |-> name]
    IN IF name = ""
       THEN /\ last' = Done("add_category", args, Raise("ValueError: Category name cannot be empty"))
            /\ UNCHANGED <<categories, expenses, nextCategoryId, nextExpenseId, cache>>
       ELSE IF \E c \in categories : c.user_id = user_id /\ c.name = name
       THEN /\ last' = Done("add_category", args, Raise("ValueError: Category already exists"))
            /\ UNCHANGED <<categories, expenses, nextCategoryId, nextExpenseId, cache>>
       ELSE /\ nextCategoryId <= MaxCategories
            /\ categories' = categories \cup {category}
            /\ nextCategoryId' = nextCategoryId + 1
            /\ cache' = invalidate_cache(cache, "get_user_categories", <<user_id>>, NoKw)
            /\ last' = DoneWrite("add_category", args, Val(category.id),
                                Did(CommitThen(
                                      invalidate_cache_cmds("get_user_categories",
                                                            <<user_id>>, NoKw))),
                                {})
            /\ UNCHANGED <<expenses, nextExpenseId>>

update_category(category_id, user_id, new_name) ==
    LET args == <<category_id, user_id>>
        category == cached_get_category_by_id(cache, categories, category_id, user_id)
    IN IF new_name = ""
       THEN /\ last' = Done("update_category", args, Raise("ValueError: Category name cannot be empty"))
            /\ UNCHANGED <<categories, expenses, nextCategoryId, nextExpenseId, cache>>
       ELSE IF category.t = "none"
       THEN /\ last' = Done("update_category", args, NoneResult)
            /\ UNCHANGED <<categories, expenses, nextCategoryId, nextExpenseId, cache>>
       ELSE /\ categories' = (categories \ {category.v})
                             \cup {[id |-> category.v.id, user_id |-> category.v.user_id,
                                    name |-> new_name]}
            /\ cache' = invalidate_cache(
                           invalidate_cache(cache, "get_user_categories", <<user_id>>, NoKw),
                           "get_category_by_id", <<category_id, user_id>>, NoKw)
            /\ last' = DoneWrite("update_category", args, Val(category_id),
                                Did(CommitThen(
                                      invalidate_cache_cmds("get_user_categories",
                                                            <<user_id>>, NoKw)
                                      \o invalidate_cache_cmds("get_category_by_id",
                                                               <<category_id, user_id>>,
                                                               NoKw))),
                                {})
            /\ UNCHANGED <<expenses, nextCategoryId, nextExpenseId>>

\* The category that takes over the expenses when new_category_id is not
\* given: the user's category named "Other" (scalar_one_or_none raises when
\* there are several), created when there is none.
OtherRows(user_id) == {c \in categories : c.user_id = user_id /\ c.name = "Other"}

delete_category(category_id, user_id, new_category_id) ==
    LET args == <<category_id, user_id, new_category_id>>
        category == cached_get_category_by_id(cache, categories, category_id, user_id)
        given == cached_get_category_by_id(cache, categories, new_category_id, user_id)
        others == OtherRows(user_id)
        created == [id |-> nextCategoryId, user_id |-> user_id, name |-> "Other"]
        new_category == IF Truthy(new_category_id) THEN given.v
                        ELSE IF others # {} THEN CHOOSE c \in others : TRUE
                        ELSE created
        moved == {e \in expenses : e.category_id = category_id /\ e.user_id = user_id}
    IN IF category.t = "none"
       THEN /\ last' = Done("delete_category", args, Val(FALSE))
            /\ UNCHANGED <<categories, expenses, nextCategoryId, nextExpenseId, cache>>
       ELSE IF Truthy(new_category_id) /\ given.t = "none"
       THEN /\ last' = Done("delete_category", args, Val(FALSE))
            /\ UNCHANGED <<categories, expenses, nextCategoryId, nextExpenseId, cache>>
       ELSE IF ~Truthy(new_category_id) /\ Cardinality(others) > 1
       THEN /\ last' = Done("delete_category", args, Raise("MultipleResultsFound"))
            /\ UNCHANGED <<categories, expenses, nextCategoryId, nextExpenseId, cache>>
       ELSE \* the handler never asks to move the expenses to the deleted category
            /\ new_category.id # category_id
            /\ (~Truthy(new_category_id) /\ others = {}) => nextCategoryId <= MaxCategories
            /\ nextCategoryId' = IF ~Truthy(new_category_id) /\ others = {}
                                 THEN nextCategoryId + 1 ELSE nextCategoryId
            /\ categories' = (categories \cup {new_category}) \ {category.v}
            /\ expenses' = (expenses \ moved)
                           \cup {WithCategory(e, new_category.id) : e \in moved}
            /\ cache' = invalidate_expense_caches(
                          invalidate_cache(
                            invalidate_cache(cache, "get_user_categories", <<user_id>>, NoKw),
                            "get_category_by_id", <<category_id, user_id>>, NoKw),
                          user_id, None, None)
            /\ last' = DoneWrite("delete_category", args, Val(TRUE),
                                Did((IF ~Truthy(new_category_id) /\ others = {}
                                     THEN <<Commit>> ELSE <<>>)
                                    \o CommitThen(
                                         invalidate_cache_cmds("get_user_categories",
                                                               <<user_id>>, NoKw)
                                         \o invalidate_cache_cmds("get_category_by_id",
                                                                  <<category_id, user_id>>,
                                                                  NoKw)
                                         \o invalidate_expense_caches_cmds(
                                              invalidate_cache(
                                                invalidate_cache(cache, "get_user_categories",
                                                                 <<user_id>>, NoKw),
                                                "get_category_by_id",
                                                <<category_id, user_id>>, NoKw),
                                              user_id, None, None))),
                                {e.id : e \in moved})
            /\ UNCHANGED nextExpenseId

(***************************************************************************)
(* user_repository.py: get_or_create_user is itself a wrapped operation;   *)
(* its key holds the user id and the username.                             *)
(***************************************************************************)
Usernames == {"ann"}

\* The names of the categories made for a new user; of the six names of
\* the source the model keeps the first (as "Food") and the last.
default_categories == <<"Food", "Other">>

UserKey(user_id, username) ==
    Join(<< <<"user">>, <<"get_or_create_user">>, Str(user_id), <<username>> >>)

get_or_create_user(user_id, username) ==
    LET cache_key == UserKey(user_id, username)
        call == Call("get_or_create_user", <<user_id>>, NoKw)
        args == <<user_id>>
        user == [id |-> user_id, username |-> username]
        made == {[id |-> nextCategoryId + i - 1, user_id |-> user_id,
                  name |-> default_categories[i]] : i \in 1..Len(default_categories)}
        invalidated == invalidate_cache(cache, "get_user_categories", <<user_id>>, NoKw)
    IN IF cache_key \in DOMAIN cache
       THEN /\ last' = DoneWrite("get_or_create_user", args,
                                Val(loads(cache[cache_key].data)),
                                [hit |-> TRUE, loads |-> 0, raised |-> FALSE,
                                 cmds |-> <<>>], {})
            /\ UNCHANGED <<categories, expenses, nextCategoryId, nextExpenseId, cache,
                           userRows>>
       ELSE IF \E u \in userRows : u.id = user_id
       THEN LET found == CHOOSE u \in userRows : u.id = user_id
            IN /\ Fits((cache_key :> Entry(call, found)) @@ cache)
               /\ cache' = (cache_key :> Entry(call, found)) @@ cache
               /\ last' = DoneWrite("get_or_create_user", args, Val(found),
                                   [hit |-> FALSE, loads |-> 1, raised |-> FALSE,
                                    cmds |-> <<Set(cache_key)>>], {})
               /\ UNCHANGED <<categories, expenses, nextCategoryId, nextExpenseId,
                              userRows>>
       ELSE /\ nextCategoryId + Len(default_categories) - 1 <= MaxCategories
            /\ Fits((cache_key :> Entry(call, user)) @@ invalidated)
            /\ userRows' = userRows \cup {user}
            /\ categories' = categories \cup made
            /\ nextCategoryId' = nextCategoryId + Len(default_categories)
            /\ cache' = (cache_key :> Entry(call, user)) @@ invalidated
            /\ last' = DoneWrite("get_or_create_user", args, Val(user),
                                [hit |-> FALSE, loads |-> 1, raised |-> FALSE,
                                 cmds |-> CommitThen(
                                            invalidate_cache_cmds("get_user_categories",
                                                                  <<user_id>>, NoKw))
                                          \o <<Set(cache_key)>>], {})
            /\ UNCHANGED <<expenses, nextExpenseId>>

(***************************************************************************)
(* spendings.py: the report generators keep the rendered chart in Redis    *)
(* under the key of get_image_key.                                         *)
(***************************************************************************)
ReportCall(report_type, user_id, year, month) ==
    CASE report_type = "yearly" -> Call("get_yearly_expenses", <<user_id, year>>, NoKw)
      [] report_type = "monthly" -> Call("get_monthly_expenses", <<user_id, year, month>>, NoKw)
      [] report_type = "daily" -> Call("get_daily_expenses", <<user_id, year, month>>, NoKw)

\* the bytes of the chart rendered from the data
Render(data) == [png |-> data]

generate_report(report_type, user_id, year, month, dbfail1, dbfail2) ==
    LET r == wrapper(cache, categories, expenses,
                     ReportCall(report_type, user_id, year, month), dbfail1, dbfail2)
        image_key == get_image_key(report_type, user_id, year,
                                   IF report_type = "yearly" THEN None ELSE month)
        args == <<user_id, year, month>>
        op == "generate_" \o report_type \o "_report"
    IN IF r.out.t = "raise"
       THEN /\ cache' = r.store
            /\ last' = DoneWrite(op, args, r.out, Did(r.cmds), {})
            /\ UNCHANGED <<categories, expenses, nextCategoryId, nextExpenseId>>
       ELSE IF r.out.v = {}
       THEN /\ Fits(r.store)
            /\ cache' = r.store
            /\ last' = DoneWrite(op, args, NoneResult, Did(r.cmds), {})
            /\ UNCHANGED <<categories, expenses, nextCategoryId, nextExpenseId>>
       ELSE IF image_key \in DOMAIN r.store
       THEN /\ Fits(r.store)
            /\ cache' = r.store
            /\ last' = DoneWrite(op, args, Val(r.store[image_key].data), Did(r.cmds), {})
            /\ UNCHANGED <<categories, expenses, nextCategoryId, nextExpenseId>>
       ELSE /\ Fits((image_key :> [data |-> Render(r.out.v),
                                      call |-> Call(report_type, args, NoKw)]) @@ r.store)
            /\ cache' = (image_key :> [data |-> Render(r.out.v),
                                       call |-> Call(report_type, args, NoKw)]) @@ r.store
            /\ last' = DoneWrite(op, args, Val(Render(r.out.v)),
                                Did(r.cmds \o <<Set(image_key)>>), {})
            /\ UNCHANGED <<categories, expenses, nextCategoryId, nextExpenseId>>

(***************************************************************************)
(* income_repository.py imports invalidate_income_caches from              *)
(* cache_helpers, which defines only the names below: the import raises    *)
(* ImportError, so that no operation of the module can be called.          *)
(***************************************************************************)
cache_helpers == {"invalidate_expense_caches", "invalidate_category_caches",
                  "invalidate_all_user_caches"}

add_income(user_id, day, month, year, amount) ==
    /\ "invalidate_income_caches" \notin cache_helpers
    /\ last' = Done("add_income", <<user_id, day, month, year, amount>>,
                    Raise("ImportError: cannot import name invalidate_income_caches"))
    /\ UNCHANGED <<categories, expenses, nextCategoryId, nextExpenseId, cache>>

delete_income_by_id(income_id, user_id) ==
    /\ "invalidate_income_caches" \notin cache_helpers
    /\ last' = Done("delete_income_by_id", <<income_id, user_id>>,
                    Raise("ImportError: cannot import name invalidate_income_caches"))
    /\ UNCHANGED <<categories, expenses, nextCategoryId, nextExpenseId, cache>>

(***************************************************************************)
(* redis_cache.wrapper taken one await at a time: a call of the wrapper is *)
(* a coroutine, and between its awaits (redis.get, func, redis.set) the    *)
(* event loop runs the other requests.  pending is the call in flight:     *)
(* after its GET missed (phase "missed") and after the wrapped operation   *)
(* returned (phase "loaded", with the outcome in out).                     *)
(***************************************************************************)
\* The outcome that Recorded(fn, out) was made from.
Outcome(fn, rec) == [t |-> rec.t, v |-> rec.v[<<fn, rec.t>>], json |-> rec.json]

\* cached_value = await redis.get(cache_key), finding nothing
wrapper_get(call) ==
    /\ pending = Idle
    /\ KeyOf(call) \notin DOMAIN cache
    /\ pending' = [phase |-> "missed", call |-> call,
                   out |-> Recorded(call.fn, NoneResult)]
    /\ UNCHANGED <<categories, expenses, nextCategoryId, nextExpenseId, cache, last,
                   userRows>>

\* result = await func(*args, **kwargs)
wrapper_func ==
    /\ pending.phase = "missed"
    /\ pending' = [phase |-> "loaded", call |-> pending.call,
                   out |-> Recorded(pending.call.fn,
                                    Loader(cache, categories, expenses, pending.call,
                                           FALSE))]
    /\ UNCHANGED <<categories, expenses, nextCategoryId, nextExpenseId, cache, last,
                   userRows>>

\* A wrapper that would leave an entry alone that another request has
\* stored since the GET.
wrapper_after_KeepStored(store, cats, exps, call, result) ==
    IF KeyOf(call) \in DOMAIN store
    THEN [store |-> store, out |-> result, loads |-> 1, hit |-> FALSE,
          raised |-> FALSE, cmds |-> <<>>]
    ELSE [store |-> (KeyOf(call) :> Entry(call, result.v)) @@ store,
          out |-> result, loads |-> 1, hit |-> FALSE, raised |-> FALSE,
          cmds |-> <<Set(KeyOf(call))>>]

\* if result is not None: await redis.set(cache_key, json.dumps(result),
\* ex=expire); return result.  A result that json.dumps rejects takes the
\* except branch, which invokes the wrapped operation again.
wrapper_after(store, cats, exps, call, result) ==
    LET again == Loader(store, cats, exps, call, FALSE)
    IN IF result.t = "raise" \/ ~result.json
       THEN [store |-> store, out |-> again, loads |-> 2, hit |-> FALSE,
             raised |-> (result.t = "raise" \/ again.t = "raise"),
             cmds |-> <<Logged(IF result.t = "raise" THEN result.v
                               ELSE "TypeError")>>]
       ELSE IF result.t = "none"
       THEN [store |-> store, out |-> result, loads |-> 1, hit |-> FALSE,
             raised |-> FALSE, cmds |-> <<>>]
       ELSE [store |-> (KeyOf(call) :> Entry(call, result.v)) @@ store,
             out |-> result, loads |-> 1, hit |-> FALSE, raised |-> FALSE,
             cmds |-> <<Set(KeyOf(call))>>]

wrapper_set ==
    /\ pending.phase = "loaded"
    /\ LET call == pending.call
           r == wrapper_after(cache, categories, expenses, call,
                              Outcome(call.fn, pending.out))
       IN /\ Fits(r.store)
          /\ cache' = r.store
          /\ last' = DoneRead(call, r)
    /\ pending' = Idle
    /\ UNCHANGED <<categories, expenses, nextCategoryId, nextExpenseId, userRows>>

(***************************************************************************)
(* Two requests in the wrapper at once.  No lock is taken around the GET,  *)
(* the wrapped operation and the SET, so that the event loop may run the   *)
(* awaits of the two calls in any order.  inflight[i] is the call of       *)
(* request i: its phase ("missed" after the GET found nothing, "loaded"    *)
(* after the wrapped operation returned, "done" after the wrapper          *)
(* returned), the outcome so far, the store of record as it was at the     *)
(* first GET of the calls that overlap (seen) and whether the call has     *)
(* overlapped with a call of the other request for the same key.           *)
(***************************************************************************)
StoreOfRecord == <<categories, expenses, nextCategoryId, nextExpenseId>>

InFlight(r) == r.phase \in {"missed", "loaded"}

\* cached_value = await redis.get(cache_key), finding nothing
request_get(i, call) ==
    /\ ~InFlight(inflight[i])
    /\ KeyOf(call) \notin DOMAIN cache
    /\ LET others == {j \in Requests \ {i} :
                        InFlight(inflight[j]) /\ inflight[j].call = call}
       IN inflight' =
            [j \in Requests |->
               IF j = i
               THEN [phase |-> "missed", call |-> call,
                     out |-> Recorded(call.fn, NoneResult),
                     seen |-> IF others = {} THEN StoreOfRecord
                              ELSE inflight[CHOOSE o \in others : TRUE].seen,
                     overlap |-> others # {}]
               ELSE IF j \in others
               THEN [phase |-> inflight[j].phase, call |-> call,
                     out |-> inflight[j].out, seen |-> inflight[j].seen,
                     overlap |-> TRUE]
               ELSE inflight[j]]
    /\ UNCHANGED <<categories, expenses, nextCategoryId, nextExpenseId, cache, last,
                   userRows, pending, ttl>>

\* result = await func(*args, **kwargs)
request_func(i) ==
    /\ inflight[i].phase = "missed"
    /\ inflight' =
         [j \in Requests |->
            IF j = i
            THEN [phase |-> "loaded", call |-> inflight[i].call,
                  out |-> Recorded(inflight[i].call.fn,
                                   Loader(cache, categories, expenses,
                                          inflight[i].call, FALSE)),
                  seen |-> inflight[i].seen, overlap |-> inflight[i].overlap]
            ELSE inflight[j]]
    /\ UNCHANGED <<categories, expenses, nextCategoryId, nextExpenseId, cache, last,
                   userRows, pending, ttl>>

\* if result is not None: await redis.set(...); return result
request_set(i) ==
    /\ inflight[i].phase = "loaded"
    /\ LET call == inflight[i].call
           r == wrapper_after(cache, categories, expenses, call,
                              Outcome(call.fn, inflight[i].out))
       IN /\ Fits(r.store)
          /\ cache' = r.store
          /\ last' = DoneRead(call, r)
          /\ inflight' =
               [j \in Requests |->
                  IF j = i
                  THEN [phase |-> "done", call |-> call,
                        out |-> Recorded(call.fn, r.out),
                        seen |-> inflight[i].seen, overlap |-> inflight[i].overlap]
                  ELSE inflight[j]]
    /\ UNCHANGED <<categories, expenses, nextCategoryId, nextExpenseId, userRows,
                   pending, ttl>>

(***************************************************************************)
(* Time to live.  Every SET of the wrapper passes ex=expire, the expire of *)
(* the decorator of the operation, and every SET of a report image passes  *)
(* ex=900; the store drops an entry when its time is over.  ttl holds for  *)
(* every stored key the seconds since its SET (stored) and the seconds it  *)
(* has left (left).  GET does not touch the time to live.                  *)
(***************************************************************************)
expire(prefix) ==
    CASE prefix \in {"last_expenses"} -> 300
      [] prefix \in {"expenses_by_date", "expense", "daily_expenses",
                     "report_image"} -> 900
      [] prefix \in {"monthly_expenses", "total_spent", "category",
                     "category_stats"} -> 1800
      [] prefix \in {"yearly_expenses", "user", "categories"} -> 3600
      [] prefix \in {"unique_years"} -> 7200

ExpireOf(k) == expire(k[1])

\* await redis.set(cache_key, ..., ex=expire)
Fresh(k) == [stored |-> 0, left |-> ExpireOf(k)]

\* The keys that the commands of a call SET.
SetKeys(cmds) ==
    UNION {cmds[i].keys : i \in {j \in 1..Len(cmds) : cmds[j].c = "set"}}

Track_HitRefreshes(old, store, setkeys, hitkeys) ==
    [k \in DOMAIN store |->
        IF k \in setkeys \/ k \notin DOMAIN old THEN Fresh(k)
        ELSE IF k \in hitkeys THEN [stored |-> old[k].stored, left |-> ExpireOf(k)]
        ELSE old[k]]
\* The times to live after a call: the keys it SET start anew, the keys it
\* deleted are gone, the keys it read (hitkeys) are as they were.
Track(old, store, setkeys, hitkeys) ==
    [k \in DOMAIN store |->
        IF k \in setkeys \/ k \notin DOMAIN old THEN Fresh(k) ELSE old[k]]

\* TimeUnit seconds pass: the store drops the entries whose time is over.
Tick ==
    /\ DOMAIN cache # {}
    /\ LET live == {k \in DOMAIN cache : ttl[k].left > TimeUnit}
       IN /\ cache' = Delete(cache, (DOMAIN cache) \ live)
          /\ ttl' = [k \in live |-> [stored |-> ttl[k].stored + TimeUnit,
                                     left |-> ttl[k].left - TimeUnit]]
    /\ last' = Done("tick", <<>>, NoneResult)
    /\ UNCHANGED <<categories, expenses, nextCategoryId, nextExpenseId, userRows,
                   pending, inflight>>

(***************************************************************************)
(* The same operations when a command of the Redis store raises            *)
(* (redis.exceptions.RedisError: the store is down or times out).  A       *)
(* command that raises has no effect on the store.                         *)
(***************************************************************************)
RedisError == "RedisError"

\* The patterns that invalidate_expense_caches goes through: its own, then
\* those of invalidate_report_images.
InvalidationPatterns(user_id, year, month) ==
    ExpensePatterns(user_id, year, month) \o ReportImagePatterns(user_id, year, month)

\* interrupted_invalidate_expense_caches going on through the remaining
\* patterns after the store raised.
interrupted_invalidate_expense_caches_GoesOn(store, user_id, year, month, n, cmd) ==
    [store |-> DeletePatterns(store, InvalidationPatterns(user_id, year, month)),
     cmds |-> DeleteCmds(store, InvalidationPatterns(user_id, year, month))
              \o <<StoreError(cmd, n)>>]

\* invalidate_expense_caches when redis.keys (cmd = "keys") or redis.delete
\* (cmd = "delete") raises at pattern number n: the patterns before it have
\* been gone through, and the exception leaves the function, which has no
\* try statement.
interrupted_invalidate_expense_caches(store, user_id, year, month, n, cmd) ==
    LET done == SubSeq(InvalidationPatterns(user_id, year, month), 1, n - 1)
    IN [store |-> DeletePatterns(store, done),
        cmds |-> DeleteCmds(store, done) \o <<StoreError(cmd, n)>>]

\* Where the store can raise in invalidate_expense_caches: redis.keys at any
\* pattern, redis.delete at a pattern that has keys.
CanRaise(store, user_id, year, month, n, cmd) ==
    LET patterns == InvalidationPatterns(user_id, year, month)
    IN /\ n \in 1..Len(patterns)
       /\ cmd \in {"keys", "delete"}
       /\ cmd = "delete" =>
             Keys(DeletePatterns(store, SubSeq(patterns, 1, n - 1)), patterns[n]) # {}

\* add_expense: the store raises during invalidate_expense_caches, after the
\* commit, and the exception leaves add_expense.
add_expense_store_error(user_id, day, month, year, amount, category_id, n, cmd) ==
    LET category == cached_get_category_by_id(cache, categories, category_id, user_id)
        expense == [id |-> nextExpenseId, user_id |-> user_id,
                    category_id |-> category_id, day |-> day, month |-> month,
                    year |-> year, amount |-> amount]
        inv == interrupted_invalidate_expense_caches(cache, user_id, year, month, n, cmd)
    IN /\ amount > 0
       /\ category.t # "none"
       /\ nextExpenseId <= MaxExpenses
       /\ CanRaise(cache, user_id, year, month, n, cmd)
       /\ expenses' = expenses \cup {expense}
       /\ nextExpenseId' = nextExpenseId + 1
       /\ cache' = inv.store
       /\ last' = DoneWrite("add_expense",
                           <<user_id, day, month, year, amount, category_id>>,
                           Raise(RedisError), Did(CommitThen(inv.cmds)), {expense.id})
       /\ UNCHANGED <<categories, nextCategoryId>>

\* update_expense_category: the same, after the commit of the update.
update_expense_category_store_error(expense_id, category_id, user_id, n, cmd) ==
    /\ \E e \in expenses : e.id = expense_id /\ e.user_id = user_id
    /\ LET expense == CHOOSE e \in expenses : e.id = expense_id /\ e.user_id = user_id
           inv == interrupted_invalidate_expense_caches(cache, user_id, expense.year,
                                                        expense.month, n, cmd)
       IN /\ CanRaise(cache, user_id, expense.year, expense.month, n, cmd)
          /\ expenses' = (expenses \ {expense}) \cup {WithCategory(expense, category_id)}
          /\ cache' = inv.store
          /\ last' = DoneWrite("update_expense_category",
                              <<expense_id, category_id, user_id>>,
                              Raise(RedisError), Did(CommitThen(inv.cmds)), {expense_id})
          /\ UNCHANGED <<categories, nextCategoryId, nextExpenseId>>

\* add_category: redis.delete raises in get_user_categories.invalidate_cache,
\* after the commit.
add_category_store_error(user_id, name) ==
    /\ name # ""
    /\ ~\E c \in categories : c.user_id = user_id /\ c.name = name
    /\ nextCategoryId <= MaxCategories
    /\ categories' = categories \cup {[id |-> nextCategoryId, user_id |-> user_id,
                                       name |-> name]}
    /\ nextCategoryId' = nextCategoryId + 1
    /\ last' = DoneWrite("add_category", <<user_id>>, Raise(RedisError),
                        Did(CommitThen(<<StoreError("delete", 0)>>)), {})
    /\ UNCHANGED <<expenses, nextExpenseId, cache>>

\* wrapper_store_error without the except branch: the error of the store
\* reaches the caller.
wrapper_store_error_NoExcept(store, cats, exps, call, at, dbfail2) ==
    [store |-> store,
     out |-> Raise(RedisError),
     loads |-> IF at = "get" THEN 0 ELSE 1,
     hit |-> FALSE,
     raised |-> FALSE,
     cmds |-> <<StoreError(at, 0)>>]

\* redis_cache.wrapper when redis.get raises (at = "get"), or when redis.set
\* raises (at = "set") after a miss and an invocation whose result
\* json.dumps accepted: the except branch logs the error and invokes the
\* wrapped operation.
wrapper_store_error(store, cats, exps, call, at, dbfail2) ==
    [store |-> store,
     out |-> Loader(store, cats, exps, call, dbfail2),
     loads |-> IF at = "get" THEN 1 ELSE 2,
     hit |-> FALSE,
     raised |-> Loader(store, cats, exps, call, dbfail2).t = "raise",
     cmds |-> <<StoreError(at, 0), Logged(RedisError)>>]

\* A call of a wrapped operation during which redis.get or redis.set raises.
ReadStoreError(call, at, dbfail2) ==
    LET r == wrapper_store_error(cache, categories, expenses, call, at, dbfail2)
        result == Loader(cache, categories, expenses, call, FALSE)
    IN /\ at = "set" => /\ KeyOf(call) \notin DOMAIN cache
                        /\ result.t = "val"
                        /\ result.json
       /\ last' = DoneRead(call, r)
       /\ UNCHANGED <<categories, expenses, nextCategoryId, nextExpenseId, cache>>

(***************************************************************************)
(* The specifications.  Each one is the program driven by the calls of one *)
(* part of the bot: the expense handlers and reports, the category         *)
(* management, and reads of every wrapped operation over a store of record *)
(* that may fail.                                                          *)
(***************************************************************************)
\* A step of a specification that follows neither the table users, nor a
\* call in flight, nor the clock.
\* get_last_expenses(...) through redis_cache.wrapper, as written
raw_read(call) ==
    LET cache_key == wrapper_cache_key(call.fn, call.args, call.kwargs)
        r == wrapper_at(cache, categories, expenses, call, cache_key, FALSE, FALSE)
    IN /\ Fits(r.store)
       /\ cache' = r.store
       /\ last' = DoneRaw(call.fn, call, cache_key, r)
       /\ UNCHANGED <<categories, expenses, nextCategoryId, nextExpenseId>>

\* get_last_expenses.invalidate_cache(...), as written
raw_invalidate_cache(call) ==
    LET cache_key == invalidate_cache_key(call.fn, call.args, call.kwargs)
    IN /\ cache' = Delete(cache, {cache_key})
       /\ last' = DoneRaw("invalidate_cache", call, cache_key,
                          [out |-> NoneResult, hit |-> FALSE, loads |-> 0,
                           raised |-> FALSE, cmds |-> <<Del({cache_key})>>])
       /\ UNCHANGED <<categories, expenses, nextCategoryId, nextExpenseId>>

\* await invalidate_expense_caches(session, user_id, year, month)
call_invalidate_expense_caches(user_id, year, month) ==
    /\ cache' = invalidate_expense_caches(cache, user_id, year, month)
    /\ last' = DoneWrite("invalidate_expense_caches", <<user_id, year, month>>,
                         NoneResult,
                         Did(invalidate_expense_caches_cmds(cache, user_id, year, month)),
                         {})
    /\ UNCHANGED <<categories, expenses, nextCategoryId, nextExpenseId>>

\* await invalidate_report_images(user_id, year, month)
call_invalidate_report_images(user_id, year, month) ==
    /\ cache' = invalidate_report_images(cache, user_id, year, month)
    /\ last' = DoneWrite("invalidate_report_images", <<user_id, year, month>>,
                         NoneResult,
                         Did(invalidate_report_images_cmds(cache, user_id, year, month)),
                         {})
    /\ UNCHANGED <<categories, expenses, nextCategoryId, nextExpenseId>>

AllUserPatterns_Images(user_id) ==
    << <<"report_image", ":", "*">> \o Str(user_id) \o <<"*">> >>
\* patterns of invalidate_all_user_caches
AllUserPatterns(user_id) == << <<"*">> \o Str(user_id) \o <<"*">> >>

\* await invalidate_all_user_caches(session, user_id)
invalidate_all_user_caches(user_id) ==
    /\ cache' = DeletePatterns(cache, AllUserPatterns(user_id))
    /\ last' = DoneWrite("invalidate_all_user_caches", <<user_id>>, NoneResult,
                         Did(DeleteCmds(cache, AllUserPatterns(user_id))), {})
    /\ UNCHANGED <<categories, expenses, nextCategoryId, nextExpenseId>>

\* await cache_report_image(report_type, user_id, year, month, image_bytes)
cache_report_image(report_type, user_id, year, month, image_bytes) ==
    LET key == get_image_key(report_type, user_id, year, month)
        call == Call(report_type, <<user_id, year, month>>, NoKw)
    IN /\ cache' = (key :> [data |-> image_bytes, call |-> call]) @@ cache
       /\ Cardinality(ImageKeys(cache')) <= MaxStoredImages
       /\ last' = DoneRaw("cache_report_image",
                          [fn |-> report_type, pos |-> <<user_id, year, month>>,
                           kw |-> NoKw, image_bytes |-> image_bytes],
                          key,
                          [out |-> NoneResult, hit |-> FALSE, loads |-> 0,
                           raised |-> FALSE, cmds |-> <<Set(key)>>])
       /\ UNCHANGED <<categories, expenses, nextCategoryId, nextExpenseId>>

\* await get_cached_report_image(report_type, user_id, year, month)
get_cached_report_image(report_type, user_id, year, month) ==
    LET key == get_image_key(report_type, user_id, year, month)
    IN /\ last' = DoneRaw("get_cached_report_image",
                          Call(report_type, <<user_id, year, month>>, NoKw), key,
                          [out |-> IF key \in DOMAIN cache THEN Val(cache[key].data)
                                   ELSE NoneResult,
                           hit |-> key \in DOMAIN cache, loads |-> 0,
                           raised |-> FALSE, cmds |-> <<>>])
       /\ UNCHANGED <<categories, expenses, nextCategoryId, nextExpenseId, cache>>

Plain(A) == A /\ UNCHANGED <<userRows, pending, inflight, ttl>>

\* A step of the call in flight that issues no SET.
Untimed(A) == A /\ UNCHANGED <<inflight, ttl>>

\* A call that is one step, with the times to live of the entries.
Timed(A) ==
    /\ A
    /\ ttl' = Track(ttl, cache', {}, IF last'.hit THEN {last'.key} ELSE {})
    /\ UNCHANGED <<userRows, pending, inflight>>

\* The SET of the call in flight, with the times to live of the entries.
TimedSet(A) ==
    /\ A
    /\ ttl' = Track(ttl, cache', SetKeys(last'.cmds), {})
    /\ UNCHANGED inflight

Names == CategoryNames \cup {""}
Flags(failing) == IF failing THEN BOOLEAN ELSE {FALSE}

ReadAny(calls, failing) ==
    \E call \in calls, f1, f2 \in Flags(failing) : Read(call, f1, f2)

ExpireAny == \E k \in DOMAIN cache : Expire(k)

AddExpense(users) ==
    \E u \in users, d \in Days, m \in Months, y \in Years, a \in Amounts,
       c \in CategoryIds : add_expense(u, d, m, y, a, c)

UpdateExpenseCategory ==
    \E e \in ExpenseIds, c \in CategoryIds, u \in Users :
       /\ \E x \in categories : x.id = c /\ x.user_id = u
       /\ update_expense_category(e, c, u)

DeleteExpense ==
    \E e \in ExpenseIds, u \in Users, d \in Days, m \in Months, y \in Years :
       delete_expense(e, u, <<d, m, y>>, FALSE, FALSE)

AddCategory(users, names) == \E u \in users, n \in names : add_category(u, n)

UpdateCategory(users) ==
    \E c \in CategoryIds, u \in users, n \in Names : update_category(c, u, n)

DeleteCategory(users) ==
    \E c \in CategoryIds, u \in users, n \in CategoryIds \cup {None} :
       delete_category(c, u, n)

GenerateReport ==
    \E t \in {"yearly", "monthly", "daily"}, u \in Users, y \in Years, m \in Months :
       generate_report(t, u, y, m, FALSE, FALSE)

AddIncome ==
    \E u \in Users, d \in Days, m \in Months, y \in Years, a \in Amounts :
       add_income(u, d, m, y, a)

DeleteIncome == \E i \in ExpenseIds, u \in Users : delete_income_by_id(i, u)

AddExpenseStoreError(users) ==
    \E u \in users, d \in Days, m \in Months, y \in Years, a \in Amounts,
       c \in CategoryIds, cmd \in {"keys", "delete"} :
       \E n \in 1..Len(InvalidationPatterns(u, y, m)) :
          add_expense_store_error(u, d, m, y, a, c, n, cmd)

UpdateExpenseCategoryStoreError(users) ==
    \E e \in expenses, c \in CategoryIds, cmd \in {"keys", "delete"} :
       /\ e.user_id \in users
       /\ \E x \in categories : x.id = c /\ x.user_id = e.user_id
       /\ \E n \in 1..Len(InvalidationPatterns(e.user_id, e.year, e.month)) :
             update_expense_category_store_error(e.id, c, e.user_id, n, cmd)

AddCategoryStoreError(users, names) ==
    \E u \in users, n \in names : add_category_store_error(u, n)

ReadStoreErrorAny(calls) ==
    \E call \in calls, at \in {"get", "set"}, f2 \in BOOLEAN :
       ReadStoreError(call, at, f2)

GetOrCreateUser(users) ==
    \E u \in users, n \in Usernames :
       get_or_create_user(u, n) /\ UNCHANGED <<pending, inflight, ttl>>

WrapperGet(calls) == \E call \in calls : wrapper_get(call)

RequestGet(calls) == \E i \in Requests, call \in calls : request_get(i, call)
RequestFunc == \E i \in Requests : request_func(i)
RequestSet == \E i \in Requests : request_set(i)

ExpenseCalls ==
    {c \in ReadCalls : c.fn \in {"get_total_spent", "get_unique_years",
                                 "get_last_expenses", "get_yearly_expenses",
                                 "get_monthly_expenses", "get_daily_expenses",
                                 "get_expenses_by_date", "get_expense_by_id"}}

AggregateCalls ==
    {c \in ReadCalls : c.fn \in {"get_total_spent", "get_unique_years",
                                 "get_last_expenses", "get_yearly_expenses",
                                 "get_monthly_expenses", "get_daily_expenses"}}

CategoryCalls ==
    {c \in ReadCalls : c.fn \in {"get_user_categories", "get_category_by_id",
                                 "get_category_statistics", "get_yearly_expenses",
                                 "get_total_spent"}}

CategoryListCalls ==
    {c \in ReadCalls : c.fn \in {"get_user_categories", "get_category_by_id"}}

WrapperCalls ==
    {c \in ReadCalls : /\ c.fn \in {"get_total_spent", "get_expense_by_id",
                                    "get_user_categories", "get_category_statistics"}
                       /\ c.fn # "get_expense_by_id" => c.pos[1] = 1}

StoreErrorCalls ==
    {c \in ReadCalls : /\ c.fn \in {"get_total_spent", "get_yearly_expenses",
                                    "get_user_categories"}
                       /\ c.pos[1] = 1}

WritesCalls ==
    {c \in ReadCalls : /\ c.fn \in {"get_total_spent", "get_user_categories"}
                       /\ c.pos[1] = 1}

LookupCalls == {c \in ReadCalls : c.fn = "get_category_by_id"}

InterleavedCalls ==
    {c \in AggregateCalls : /\ c.fn \in {"get_total_spent", "get_daily_expenses"}
                            /\ c.pos[1] = 1}

\* get_last_expenses of user 1 with limit 1 or the default, as a caller
\* can write it
RawCalls ==
    {RawCall("get_last_expenses", a, k) :
       a \in {<<Session(s), Integer(1)>> : s \in SessionObjects},
       k \in {<<>>, <<Kw("limit", 1)>>}}
    \cup {RawCall("get_last_expenses", <<Session(s), Integer(1), Integer(1)>>, <<>>) :
            s \in SessionObjects}
    \cup {RawCall("get_last_expenses", <<Session(s)>>, k) :
            s \in SessionObjects,
            k \in {<<Kw("user_id", 1), Kw("limit", 1)>>,
                   <<Kw("limit", 1), Kw("user_id", 1)>>}}

RawRead == \E call \in RawCalls : raw_read(call)
RawInvalidate == \E call \in RawCalls : raw_invalidate_cache(call)

\* the scopes of an invalidation: a user, with or without a year and a month
Scopes ==
    {<<u, y, m>> : u \in Users, y \in Years \cup {None}, m \in Months \cup {None}}

InvalidateExpenseCaches ==
    \E a \in Scopes : call_invalidate_expense_caches(a[1], a[2], a[3])

InvalidateReportImages ==
    \E a \in Scopes : call_invalidate_report_images(a[1], a[2], a[3])

ScopeCalls ==
    {c \in ReadCalls : c.fn \in {"get_total_spent", "get_monthly_expenses",
                                   "get_expenses_by_date"}}

\* the reports as the report handlers store them: a yearly image without a
\* month, a monthly and a daily image with one
StoreReportImage ==
    \E t \in ReportTypes, u \in ImageUsers, y \in ImageYears, m \in ImageMonths :
       cache_report_image(t, u, y, IF t = "yearly" THEN None ELSE m, Render({}))

\* the report images that a caller can name: every type with or without a
\* month
ImageTuples ==
    {<<t, u, y, m>> : t \in ReportTypes, u \in ImageUsers, y \in Years,
                      m \in Months \cup {None}}

ImageBytes == {Render({}), Render({0})}

CacheReportImage ==
    \E a \in ImageTuples, b \in ImageBytes :
       cache_report_image(a[1], a[2], a[3], a[4], b)

GetCachedReportImage ==
    \E a \in ImageTuples : get_cached_report_image(a[1], a[2], a[3], a[4])

InvalidateAllUserCaches == \E u \in Users : invalidate_all_user_caches(u)

ImageScopes ==
    {<<u, y, m>> : u \in ImageUsers, y \in ImageYears \cup {None},
                   m \in ImageMonths \cup {None}}

InvalidateImages ==
    \E a \in ImageScopes : call_invalidate_report_images(a[1], a[2], a[3])

TimedCalls ==
    {c \in ReadCalls : /\ c.fn \in {"get_last_expenses", "get_daily_expenses"}
                       /\ c.pos[1] = 1 /\ c.kw = NoKw}

DailyReport ==
    \E y \in Years, m \in Months : generate_report("daily", 1, y, m, FALSE, FALSE)

\* the expense handlers, the daily report and the income handlers: user 1
\* records, both users read
Next ==
    \/ Plain(ReadAny(ExpenseCalls, FALSE))
    \/ Plain(ExpireAny)
    \/ Plain(AddCategory({1}, Names))
    \/ Plain(AddExpense({1}))
    \/ Plain(UpdateExpenseCategory)
    \/ Plain(DeleteExpense)
    \/ Plain(DailyReport)
    \/ Plain(AddIncome)
    \/ Plain(DeleteIncome)

\* the category management
NextCategory ==
    \/ Plain(ReadAny(CategoryCalls, FALSE))
    \/ Plain(ExpireAny)
    \/ Plain(AddCategory(Users, Names))
    \/ Plain(UpdateCategory(Users))
    \/ Plain(DeleteCategory(Users))
    \/ Plain(AddExpense(Users))

\* recording expenses and reading the aggregates
NextAddExpense ==
    \/ Plain(ReadAny(AggregateCalls, FALSE))
    \/ Plain(ExpireAny)
    \/ Plain(AddCategory(Users, {"Food"}))
    \/ Plain(AddExpense(Users))

\* the category list and lookups under category writes
NextCategoryList ==
    \/ Plain(ReadAny(CategoryListCalls, FALSE))
    \/ Plain(ExpireAny)
    \/ Plain(AddCategory(Users, Names))
    \/ Plain(UpdateCategory(Users))
    \/ Plain(DeleteCategory(Users))

\* reads of one user over a store of record that may fail
NextWrapper ==
    \/ Plain(ReadAny(WrapperCalls, TRUE))
    \/ Plain(ExpireAny)
    \/ Plain(AddCategory({1}, {"Food"}))
    \/ Plain(AddExpense({1}))

\* one user over a Redis store and a store of record that may both fail
NextStoreError ==
    \/ Plain(ReadAny(StoreErrorCalls, TRUE))
    \/ Plain(ReadStoreErrorAny(StoreErrorCalls))
    \/ Plain(ExpireAny)
    \/ Plain(AddCategory({1}, {"Food"}))
    \/ Plain(AddCategoryStoreError({1}, {"Food"}))
    \/ Plain(AddExpense({1}))
    \/ Plain(AddExpenseStoreError({1}))
    \/ Plain(UpdateExpenseCategoryStoreError({1}))
    \/ Plain(GenerateReport)

\* every write of one user, from /start on
NextWrites ==
    \/ Plain(ReadAny(WritesCalls, FALSE))
    \/ Plain(ExpireAny)
    \/ GetOrCreateUser({1})
    \/ Plain(AddCategory({1}, Names))
    \/ Plain(UpdateCategory({1}))
    \/ Plain(DeleteCategory({1}))
    \/ Plain(AddExpense({1}))
    \/ Plain(UpdateExpenseCategory)
    \/ Plain(DeleteExpense)

\* one request reading through the wrapper while other requests read and
\* record expenses
NextInterleaved ==
    \/ Untimed(WrapperGet(InterleavedCalls))
    \/ Untimed(wrapper_func)
    \/ Untimed(wrapper_set)
    \/ Plain(ReadAny(InterleavedCalls, FALSE))
    \/ Plain(ExpireAny)
    \/ Plain(AddCategory({1}, CategoryNames))
    \/ Plain(AddExpense({1}))

\* two requests reading through the wrapper at once while expenses are
\* recorded and entries expire
NextConcurrent ==
    \/ RequestGet(InterleavedCalls)
    \/ RequestFunc
    \/ RequestSet
    \/ Plain(ExpireAny)
    \/ Plain(AddCategory({1}, {"Food"}))
    \/ Plain(AddExpense({1}))

\* the categories of user 1 created and deleted while both users look
\* categories up and user 1 records expenses
NextLookup ==
    \/ Plain(ReadAny(LookupCalls, FALSE))
    \/ Plain(AddCategory({1}, CategoryNames))
    \/ Plain(DeleteCategory({1}))
    \/ Plain(AddExpense({1}))

\* reads, the daily report and add_expense while time passes
NextTimed ==
    \/ Untimed(WrapperGet(TimedCalls))
    \/ Untimed(wrapper_func)
    \/ TimedSet(wrapper_set)
    \/ Timed(ReadAny(TimedCalls, FALSE))
    \/ Timed(DailyReport)
    \/ Timed(AddCategory({1}, {"Food"}))
    \/ Timed(AddExpense({1}))
    \/ Timed(AddExpenseStoreError({1}))
    \/ Tick

\* reads and invalidations of get_last_expenses in every way of writing
\* the call
NextShapes ==
    \/ Plain(RawRead)
    \/ Plain(RawInvalidate)
    \/ Plain(AddCategory({1}, {"Food"}))
    \/ Plain(AddExpense({1}))

\* the invalidations called for every scope over a store that reads and
\* reports fill
NextInvalidate ==
    \/ Plain(InvalidateExpenseCaches)
    \/ Plain(InvalidateReportImages)
    \/ Plain(ReadAny(ScopeCalls, FALSE))
    \/ Plain(GenerateReport)
    \/ Plain(AddCategory({1}, {"Food"}))
    \/ Plain(AddExpense({1}))

\* report images of several users, years and months, and their invalidation
NextImages ==
    \/ Plain(StoreReportImage)
    \/ Plain(InvalidateImages)

\* report images stored and fetched
NextRoundTrip ==
    \/ Plain(CacheReportImage)
    \/ Plain(GetCachedReportImage)

\* entries of every wrapped operation and report images, and the
\* invalidation of everything of a user
NextAllUser ==
    \/ Plain(ReadAny(ReadCalls, FALSE))
    \/ Plain(GenerateReport)
    \/ Plain(AddCategory({1}, {"Food"}))
    \/ Plain(AddExpense({1}))
    \/ Plain(InvalidateAllUserCaches)

Spec == Init /\ [][Next]_vars
SpecCategory == Init /\ [][NextCategory]_vars
SpecAddExpense == Init /\ [][NextAddExpense]_vars
SpecCategoryList == Init /\ [][NextCategoryList]_vars
SpecWrapper == Init /\ [][NextWrapper]_vars
SpecStoreError == Init /\ [][NextStoreError]_vars
SpecWrites == Init /\ [][NextWrites]_vars
SpecInterleaved == Init /\ [][NextInterleaved]_vars
SpecTimed == Init /\ [][NextTimed]_vars
SpecShapes == Init /\ [][NextShapes]_vars
SpecInvalidate == Init /\ [][NextInvalidate]_vars
SpecImages == Init /\ [][NextImages]_vars
SpecRoundTrip == Init /\ [][NextRoundTrip]_vars
SpecAllUser == Init /\ [][NextAllUser]_vars
SpecConcurrent == Init /\ [][NextConcurrent]_vars
SpecLookup == Init /\ [][NextLookup]_vars

(***************************************************************************)
(* The properties                                                          *)
(***************************************************************************)
ExpenseWrites == {"add_expense", "update_expense_category", "delete_expense"}

\* The user, year and month that a completed expense write passed to
\* invalidate_expense_caches.
ScopeUser(l) == CASE l.op = "add_expense" -> l.args[1]
                  [] l.op = "update_expense_category" -> l.args[3]
                  [] l.op = "delete_expense" -> l.args[2]

AggregateKeys(u, y, m) ==
    {KeyOf(c) : c \in {x \in AggregateCalls : /\ x.pos[1] = u
                                              /\ Len(x.pos) >= 2 => x.pos[2] = y
                                              /\ Len(x.pos) >= 3 => x.pos[3] = m}}

AddExpenseDone(l) == l.op = "add_expense" /\ l.out.t = "val"

\* C1: after add_expense(U, d, M, Y) has committed and invalidated, the store
\* holds no entry of get_yearly_expenses(U,Y), get_monthly_expenses(U,Y,M),
\* get_daily_expenses(U,Y,M), get_total_spent(U), get_unique_years(U) or
\* get_last_expenses(U, any limit), and the next read of each of them misses
\* and invokes its loader.
C1_AddExpenseInvalidates ==
    /\ [](AddExpenseDone(last) =>
            \A k \in AggregateKeys(last.args[1], last.args[4], last.args[3]) :
               k \notin DOMAIN cache)
    /\ [][(/\ AddExpenseDone(last)
           /\ last'.key \in AggregateKeys(last.args[1], last.args[4], last.args[3]))
          => (~last'.hit /\ last'.loads >= 1)]_vars

\* C1 witness: an add_expense committed while the store held one of these entries.
C1_Witness ==
    /\ AddExpenseDone(last)
    /\ \E k \in AggregateKeys(last.args[1], last.args[4], last.args[3]) :
          k \in DOMAIN last.before

ByDateKey(u, d, m, y) == BuildKey("get_expenses_by_date", <<u, d, m, y>>, NoKw)

\* C2: after an expense write of user U in month M of year Y has invalidated,
\* no entry of get_expenses_by_date(U, d, M, Y) remains for any day d, and
\* the list that the delete handler reads after a successful
\* delete_expense_by_id does not hold the deleted expense.
C2_ByDateInvalidated ==
    /\ (last.op \in {"add_expense", "update_expense_category"} /\ last.out.t = "val")
         => \A d \in Days, m \in Months, y \in Years :
               (\E e \in expenses : /\ e.id \in last.rows
                                    /\ e.month = m /\ e.year = y)
               => ByDateKey(ScopeUser(last), d, m, y) \notin DOMAIN cache
    /\ (last.op = "delete_expense" /\ last.out.t = "val")
         => \A x \in ValueOf(last) : x.id # last.args[1]

\* C3: two calls of a wrapped operation with the same arguments, inside the
\* TTL and with nothing between them, invoke the wrapped operation at most
\* once in total, the second call being a hit.  Stated for the calls that
\* return a value: a null result is left out of the store on purpose.
C3_AtMostOneLoad ==
    (last.loads_before >= 0 /\ last.out.t = "val")
    => (last.loads_before + last.loads <= 1 /\ last.hit)

WrappedFns == {c.fn : c \in ReadCalls}

\* Every entry of a wrapped operation holds what its loader returns now.
Coherent ==
    \A k \in DOMAIN cache :
       cache[k].call.fn \in WrappedFns
       => LET fresh == Loader(cache, categories, expenses, cache[k].call, FALSE)
          IN fresh.t = "val" /\ fresh.json /\ fresh.v = loads(cache[k].data)

\* C4: once an expense write and its invalidation have completed, every
\* cached read returns what its loader would return from the store of record.
C4_NoStaleEntryAfterWrite ==
    (last.op \in ExpenseWrites /\ last.out.t = "val") => Coherent

ExpenseAggregateFns ==
    {"get_yearly_expenses", "get_monthly_expenses", "get_daily_expenses",
     "get_expenses_by_date", "get_last_expenses", "get_total_spent",
     "get_unique_years"}

DeleteCategoryDone(l) ==
    l.op = "delete_category" /\ l.out.t = "val" /\ ValueOf(l) /\ Truthy(l.args[3])

\* C5: after delete_category(C, U, N) returned True, having moved expenses
\* of U from C to N, no entry of an expense aggregate of U remains.
C5_DeleteCategoryInvalidatesAggregates ==
    (DeleteCategoryDone(last) /\ last.rows # {})
    => \A k \in DOMAIN cache :
          ~(cache[k].call.fn \in ExpenseAggregateFns /\ cache[k].call.pos[1] = last.args[2])

StatsKey(u, c) == BuildKey("get_category_statistics", <<u, c>>, NoKw)

\* C6: after delete_category(C, U, N) returned True, no entry of
\* get_category_statistics remains for (U, C) nor for (U, N).
C6_DeleteCategoryInvalidatesStats ==
    DeleteCategoryDone(last)
    => ~\E c \in {last.args[1], last.args[3]} :
           StatsKey(last.args[2], c) \in DOMAIN cache

ListKey(u) == BuildKey("get_user_categories", <<u>>, NoKw)
LookupKey(c, u) == BuildKey("get_category_by_id", <<c, u>>, NoKw)

CategoryWriteDone(l) ==
    \/ l.op \in {"add_category", "update_category"} /\ l.out.t = "val"
    \/ l.op = "delete_category" /\ l.out.t = "val" /\ ValueOf(l)

\* The keys that a completed category write has to leave absent.
CategoryWriteKeys(l) ==
    IF l.op = "add_category" THEN {ListKey(l.args[1])}
    ELSE {ListKey(l.args[2]), LookupKey(l.args[1], l.args[2])}

\* C7: after add_category, update_category or delete_category has committed
\* for user U, the entry of get_user_categories(U) is absent, after the last
\* two also the entry of get_category_by_id(C, U), and the next read of
\* either invokes its loader.
C7_CategoryWritesInvalidate ==
    /\ [](CategoryWriteDone(last)
          => \A k \in CategoryWriteKeys(last) : k \notin DOMAIN cache)
    /\ [][(CategoryWriteDone(last) /\ last'.key \in CategoryWriteKeys(last))
          => (~last'.hit /\ last'.loads >= 1)]_vars

\* C7 witness: a category write committed while the list of the user was cached.
C7_Witness ==
    /\ CategoryWriteDone(last)
    /\ \E k \in CategoryWriteKeys(last) : k \in DOMAIN last.before

\* The user an entry was stored for (0: an entry keyed by expense id only).
OwnerOf(entry) == IF entry.call.fn = "get_expense_by_id" THEN 0 ELSE entry.call.pos[1]

\* C8: invalidate_expense_caches(U, Y, M), as run by an expense write of U,
\* removes no entry and no report image stored for another user.
C8_NonInterference ==
    (last.op \in ExpenseWrites /\ last.out.t = "val")
    => \A k \in DOMAIN last.before :
          OwnerOf(last.before[k]) \notin {0, ScopeUser(last)} => k \in DOMAIN cache

\* C9: add_income with a positive amount, and delete_income_by_id, commit,
\* invalidate the income entries of the user and return normally.
C9_AddIncomeReturns ==
    \/ last.op = "add_income" /\ last.args[5] > 0
    \/ last.op = "delete_income_by_id"
    => last.out.t = "val"

\* C10: a call of the wrapper during which an invocation of the wrapped
\* operation raised ends by raising to its caller.
C10_LoaderErrorsPropagate ==
    last.raised => last.out.t = "raise"

WriteOps == {"add_expense", "update_expense_category", "delete_expense",
             "add_category", "update_category", "delete_category"}

\* The call committed; a command of the store raised during the call.
Committed(l) == \E i \in 1..Len(l.cmds) : l.cmds[i].c = "commit"
StoreRaised(l) == \E i \in 1..Len(l.cmds) : l.cmds[i].c = "raised"

\* C11: when the store raises during the invalidation that follows the
\* commit of add_expense, of an expense update or of a category write, the
\* write still returns its normal result to its caller.
C11_InvalidationErrorsHidden ==
    (last.op \in WriteOps /\ Committed(last) /\ StoreRaised(last))
    => last.out.t = "val"

\* What the wrapped operation of the call recorded in l returns or raises now.
LoaderOutcomes(l) ==
    {Recorded(call.fn, Loader(cache, categories, expenses, call, f)) :
       call \in {c \in ReadCalls : KeyOf(c) = l.key}, f \in BOOLEAN}

GetRaised(l) == l.key # <<>> /\ l.cmds # <<>> /\ l.cmds[1] = StoreError("get", 0)

CacheWriteFailed(l) ==
    /\ l.key # <<>>
    /\ \E i \in 1..Len(l.cmds) :
          l.cmds[i] = StoreError("set", 0) \/ l.cmds[i] = Logged("TypeError")

\* C13: when redis.set raises or the result cannot be serialized, the error
\* is logged, nothing is stored under the key and the caller receives the
\* value of the wrapped operation.
C13_CacheWriteErrorsSwallowed ==
    CacheWriteFailed(last)
    => /\ \E i \in 1..Len(last.cmds) : last.cmds[i].c = "logger.error"
       /\ last.key \notin DOMAIN cache
       /\ last.out.t = "val"
       /\ last.out \in LoaderOutcomes(last)

AllWriteOps == WriteOps \cup {"get_or_create_user"}

\* The write recorded in l failed its validation or found no target.
Rejected(l) ==
    \/ l.out.t \in {"raise", "none"}
    \/ l.op = "delete_category" /\ l.out.t = "val" /\ ~ValueOf(l)

\* C14: in every write, each DELETE of the store comes after every commit of
\* the call, and there is no DELETE without a commit; a write that raises
\* ValueError or returns None or False commits nothing, issues no DELETE and
\* leaves the tables and the store as they were.
C14_DeleteAfterCommit ==
    /\ [](last.op \in AllWriteOps
          => \A i \in 1..Len(last.cmds) :
                last.cmds[i].c = "delete"
                => /\ \E j \in 1..(i - 1) : last.cmds[j].c = "commit"
                   /\ \A j \in (i + 1)..Len(last.cmds) : last.cmds[j].c # "commit")
    /\ [][(last'.op \in AllWriteOps /\ Rejected(last'))
          => /\ \A i \in 1..Len(last'.cmds) : last'.cmds[i].c \notin {"commit", "delete"}
             /\ UNCHANGED <<categories, expenses, userRows, cache>>]_vars

\* C14 witness: get_or_create_user made a user while the list of the
\* categories of this user was stored.
C14_Witness ==
    /\ last.op = "get_or_create_user"
    /\ Committed(last)
    /\ \E i \in 1..Len(last.cmds) :
          last.cmds[i].c = "delete" /\ last.cmds[i].keys \subseteq DOMAIN last.before

\* An expense write whose invalidation the store interrupted, the pattern at
\* which it raised and the row that the write committed.
Interrupted(l) ==
    l.op \in {"add_expense", "update_expense_category"} /\ StoreRaised(l)
RaisedAt(l) == l.cmds[Len(l.cmds)].n
WrittenRows(l) == {e \in expenses : e.id \in l.rows}

\* The keys that the patterns gone through before the store raised match.
ProcessedKeys(l, e) ==
    {k \in DOMAIN l.before :
       \E i \in 1..(RaisedAt(l) - 1) :
          GlobMatch(InvalidationPatterns(e.user_id, e.year, e.month)[i], k)}

\* C15: when the store raises partway through invalidate_expense_caches, the
\* committed row stays in the store of record, the keys of the patterns gone
\* through before stay deleted, and every other entry, the report images
\* among them, stays in the store as it was.
C15_PartialInvalidationKeepsWrite ==
    Interrupted(last)
    => /\ WrittenRows(last) # {}
       /\ \A e \in WrittenRows(last) :
             /\ last.op = "update_expense_category" => e.category_id = last.args[2]
             /\ \A k \in ProcessedKeys(last, e) : k \notin DOMAIN cache
             /\ \A k \in (DOMAIN last.before) \ ProcessedKeys(last, e) :
                   k \in DOMAIN cache /\ cache[k] = last.before[k]
             /\ RaisedAt(last) <= Len(ExpensePatterns(e.user_id, e.year, e.month))
                  => ImageKeys(last.before) \subseteq DOMAIN cache

\* C15 witness: the store raised after a key had been deleted and before the
\* image of the written year was reached.
C15_Witness ==
    /\ Interrupted(last)
    /\ \E k \in DOMAIN last.before : k \notin DOMAIN cache
    /\ \E e \in WrittenRows(last) :
          \E k \in ImageKeys(last.before) :
             /\ k \in DOMAIN cache
             /\ \E i \in 1..Len(ReportImagePatterns(e.user_id, e.year, e.month)) :
                   GlobMatch(ReportImagePatterns(e.user_id, e.year, e.month)[i], k)

\* C16: whatever the interleaving of calls of the wrapper with add_expense
\* and its invalidation, a read served from the store returns what the
\* store of record holds: every add_expense of a user invalidates all the
\* aggregates of this user, so that a value loaded before the commit of the
\* last one is never returned after its invalidation.
C16_NoStaleReadAfterInvalidation ==
    (last.hit /\ last.key \in {KeyOf(c) : c \in AggregateCalls})
    => last.out \in LoaderOutcomes(last)

\* C17: every stored entry has a finite time to live, the expire of its
\* operation (900 s for a report image), counted from its SET: a hit does
\* not extend it, an entry is replaced only by the SET of a call that
\* missed and loaded, and a hit is served from an entry stored less than
\* its expire ago, also after an invalidation that failed or was skipped.
C17_StalenessBounded ==
    /\ [](/\ DOMAIN ttl = DOMAIN cache
          /\ \A k \in DOMAIN cache :
                /\ ttl[k].left > 0
                /\ ttl[k].stored >= 0
                /\ ttl[k].stored + ttl[k].left = ExpireOf(k))
    /\ [][/\ \A k \in (DOMAIN cache) \cap (DOMAIN cache') :
                (cache'[k] # cache[k] \/ ttl'[k].stored < ttl[k].stored)
                => /\ pending.phase = "loaded" /\ pending' = Idle
                   /\ KeyOf(pending.call) = k
                   /\ ~last'.hit /\ last'.loads = 1
                   /\ Set(k) \in {last'.cmds[i] : i \in 1..Len(last'.cmds)}
          /\ (last'.hit /\ pending' = pending)
             => /\ last'.key \in DOMAIN cache
                /\ ttl[last'.key].stored < ExpireOf(last'.key)
                /\ ttl'[last'.key] = ttl[last'.key]]_vars

\* a value that the tables no longer hold is served in the last time unit
\* of its entry
C17_Witness ==
    /\ last.hit
    /\ last.key \in DOMAIN cache
    /\ ttl[last.key].stored > 0
    /\ ttl[last.key].left = TimeUnit
    /\ last.out \notin LoaderOutcomes(last)

\* The calls as written in l.
Written(l) == l.rows

\* Two calls pass the same arguments in the same way: the same positional
\* arguments after the session and the same keyword arguments.
SameShape(c1, c2) ==
    /\ c1.fn = c2.fn
    /\ CacheArgs(c1.args) = CacheArgs(c2.args)
    /\ {c1.kwargs[i] : i \in 1..Len(c1.kwargs)}
       = {c2.kwargs[i] : i \in 1..Len(c2.kwargs)}

\* Two calls bind the parameters to the same values.
SameValues(c1, c2) == c1.fn = c2.fn /\ c1.pos = c2.pos /\ c1.kw = c2.kw

ReadKey(c) == wrapper_cache_key(c.fn, c.args, c.kwargs)

\* C18: invalidate_cache written as I deletes the key that a read written
\* as R uses exactly when I and R pass the same arguments in the same way
\* (the session and the order of the keyword arguments aside): then the key
\* is absent and the next read of it misses and invokes the operation once;
\* when R passes the same values in another way its key differs from the
\* key deleted, its entry stays as it was, and nothing is raised.
C18_InvalidateNeedsSameShape ==
    /\ [](last.op = "invalidate_cache"
          => \A I \in Written(last), R \in RawCalls :
                /\ ~last.raised
                /\ (ReadKey(R) = last.key) <=> SameShape(R, I)
                /\ SameShape(R, I) => ReadKey(R) \notin DOMAIN cache
                /\ (~SameShape(R, I) /\ SameValues(R, I)
                    /\ ReadKey(R) \in DOMAIN last.before)
                   => /\ ReadKey(R) \in DOMAIN cache
                      /\ cache[ReadKey(R)] = last.before[ReadKey(R)])
    /\ [][(/\ last.op = "invalidate_cache"
           /\ last'.op = "get_last_expenses"
           /\ \E I \in Written(last), R \in Written(last') : SameShape(R, I))
          => (~last'.hit /\ last'.loads = 1)]_vars

\* invalidate_cache(session, 1, 1) after get_last_expenses(session, 1,
\* limit=1) stored its list: the entry stays
C18_Witness ==
    /\ last.op = "invalidate_cache"
    /\ \E I \in Written(last), k \in DOMAIN cache :
          /\ SameValues(cache[k].call, I)
          /\ ~SameShape(cache[k].call, I)
          /\ k \in DOMAIN last.before

\* C19: the key of a call is made of the prefix, the name of the operation,
\* str() of each positional argument after a leading session, and name:value
\* of each keyword argument in the order of the names, joined by ":"; calls
\* that differ only in the session object or in the order in which the
\* keyword arguments are written have the same key.
C19_KeyIsPure ==
    last.op = "get_last_expenses"
    => \A c \in Written(last) :
          /\ last.key = BuildKey(c.fn,
                                 [i \in 1..Len(CacheArgs(c.args)) |->
                                    CacheArgs(c.args)[i].v],
                                 [n \in {c.kwargs[i].k : i \in 1..Len(c.kwargs)} |->
                                    Passed(<<>>, c.kwargs, 1, n)])
          /\ \A R \in RawCalls : SameShape(R, c) => ReadKey(R) = last.key

\* a call is served the entry that a call with another session object and
\* the keyword arguments in the other order stored
C19_Witness ==
    /\ last.op = "get_last_expenses"
    /\ last.hit
    /\ \E c \in Written(last) :
          /\ c.args # cache[last.key].call.args
          /\ c.kwargs # cache[last.key].call.kwargs
          /\ Len(c.kwargs) = 2

Invalidations == {"invalidate_expense_caches", "invalidate_report_images"}

\* What a second run of the invalidation recorded in l makes of a store, and
\* the DELETE commands it issues.
RunAgain(l, store) ==
    IF l.op = "invalidate_expense_caches"
    THEN invalidate_expense_caches(store, l.args[1], l.args[2], l.args[3])
    ELSE invalidate_report_images(store, l.args[1], l.args[2], l.args[3])

RunAgainCmds(l, store) ==
    IF l.op = "invalidate_expense_caches"
    THEN invalidate_expense_caches_cmds(store, l.args[1], l.args[2], l.args[3])
    ELSE invalidate_report_images_cmds(store, l.args[1], l.args[2], l.args[3])

\* C20: invalidate_expense_caches and invalidate_report_images are
\* idempotent: a second run for the same scope leaves the store as the
\* first run left it, and a run that finds no key for a pattern issues no
\* DELETE for it and raises nothing.
C20_InvalidationIdempotent ==
    /\ [](last.op \in Invalidations
          => /\ RunAgain(last, cache) = cache
             /\ RunAgainCmds(last, cache) = <<>>
             /\ ~last.raised /\ last.out.t = "none"
             /\ \A i \in 1..Len(last.cmds) :
                   last.cmds[i].c = "delete" /\ last.cmds[i].keys # {}
             /\ (RunAgain(last, last.before) = last.before)
                => (last.cmds = <<>> /\ cache = last.before))
    /\ [][(/\ last.op \in Invalidations
           /\ last'.op = last.op
           /\ last'.args = last.args)
          => (cache' = cache /\ last'.cmds = <<>> /\ ~last'.raised)]_vars

\* an invalidation for a scope none of whose keys is stored, over a store
\* that holds an entry of another user
C20_Witness ==
    /\ last.op \in Invalidations
    /\ last.cmds = <<>>
    /\ cache = last.before
    /\ DOMAIN cache # {}

\* The keys deleted by the call recorded in l, and whether it left every
\* other entry as it was.
Deleted(l) == (DOMAIN l.before) \ (DOMAIN cache)
Kept(l) == \A k \in (DOMAIN l.before) \ Deleted(l) :
              k \in DOMAIN cache /\ cache[k] = l.before[k]

\* C21: invalidate_report_images(U, Y, M) with year and month given deletes
\* the images daily(U,Y,M), monthly(U,Y,M) and yearly(U,Y) that are stored
\* and nothing else: the images of other users, of other years and of other
\* months of Y stay as they were.
C21_FullScopeDeletesThree ==
    (/\ last.op = "invalidate_report_images"
     /\ last.args[2] # None /\ last.args[3] # None)
    => /\ Deleted(last)
          = (DOMAIN last.before)
            \cap {get_image_key("daily", last.args[1], last.args[2], last.args[3]),
                  get_image_key("monthly", last.args[1], last.args[2], last.args[3]),
                  get_image_key("yearly", last.args[1], last.args[2], None)}
       /\ Kept(last)
       /\ DOMAIN cache \subseteq DOMAIN last.before

\* the monthly image of March is deleted while the one of April stays
C21_Witness ==
    /\ last.op = "invalidate_report_images"
    /\ last.args = <<1, 2024, 3>>
    /\ Deleted(last) = {get_image_key("monthly", 1, 2024, 3)}
    /\ DOMAIN cache = {get_image_key("monthly", 1, 2024, 4)}

\* The user and the year of the report image stored under k.
ImageUser(store, k) == store[k].call.pos[1]
ImageYear(store, k) == store[k].call.pos[2]

\* C22: invalidate_report_images(U) deletes all the report images of U and
\* no image of another user; invalidate_report_images(U, Y) deletes the
\* yearly, monthly and daily images of U for the year Y, and no image of
\* another user or of another year of U.
C22_PartialScopeDeletesOwnImages ==
    (/\ last.op = "invalidate_report_images"
     /\ (last.args[2] = None \/ last.args[3] = None))
    => /\ Deleted(last)
          = {k \in DOMAIN last.before :
               /\ ImageUser(last.before, k) = last.args[1]
               /\ last.args[2] # None => ImageYear(last.before, k) = last.args[2]}
       /\ Kept(last)

\* The report image that the call recorded in l names.
TupleOf(l) == {<<c.fn, c.pos[1], c.pos[2], c.pos[3]>> : c \in l.rows}

\* C23: get_cached_report_image right after cache_report_image for the
\* same report type, user, year and month returns the bytes that were
\* stored; the keys of different (type, user, year, month) differ, so that
\* storing an image leaves what is stored for every other one as it was.
C23_ImageRoundTrip ==
    /\ [](last.op = "cache_report_image"
          => \A t \in ImageTuples \ TupleOf(last) :
                LET k == get_image_key(t[1], t[2], t[3], t[4])
                IN /\ k # last.key
                   /\ (k \in DOMAIN cache) <=> (k \in DOMAIN last.before)
                   /\ k \in DOMAIN cache => cache[k] = last.before[k])
    /\ [][(/\ last.op = "cache_report_image"
           /\ last'.op = "get_cached_report_image"
           /\ TupleOf(last') = TupleOf(last))
          => /\ last'.hit
             /\ \A c \in last.rows : ValueOf(last') = c.image_bytes]_vars

\* the monthly image of March fetched while the monthly image stored
\* without a month holds other bytes
C23_Witness ==
    /\ last.op = "get_cached_report_image"
    /\ last.hit
    /\ ValueOf(last) = Render({0})
    /\ TupleOf(last) = {<<"monthly", 1, 2024, 3>>}
    /\ get_image_key("monthly", 1, 2024, None) \in DOMAIN cache
    /\ cache[get_image_key("monthly", 1, 2024, None)].data = Render({})

\* The user arguments of the call that stored an entry: get_expense_by_id
\* has none, get_category_by_id has it second.
KeyedWith(entry) ==
    IF entry.call.fn = "get_expense_by_id" THEN {}
    ELSE IF entry.call.fn = "get_category_by_id" THEN {entry.call.pos[2]}
    ELSE {entry.call.pos[1]}

\* C24: after invalidate_all_user_caches(U) no entry of a wrapped operation
\* called with the user U and no report image of U is stored.
C24_AllUserCachesRemoved ==
    last.op = "invalidate_all_user_caches"
    => /\ \A k \in DOMAIN last.before :
             last.args[1] \in KeyedWith(last.before[k]) => k \notin DOMAIN cache
       /\ \A k \in DOMAIN cache : last.args[1] \notin KeyedWith(cache[k])
       /\ ~last.raised

\* an entry of a wrapped operation and a report image of the user are
\* deleted by one call
C24_Witness ==
    /\ last.op = "invalidate_all_user_caches"
    /\ DataKeys(last.before) # {}
    /\ ImageKeys(last.before) # {}
    /\ \A k \in DOMAIN last.before : last.args[1] \in KeyedWith(last.before[k])
    /\ cache = <<>>

\* The keys that get_image_key builds and the keys that the wrapper builds.
AllImageKeys ==
    {get_image_key(t, u, y, m) :
       t \in ReportTypes, u \in Users, y \in Years, m \in Months \cup {None}}
AllWrapperKeys == {KeyOf(c) : c \in ReadCalls}

Matched(patterns, k) == \E i \in 1..Len(patterns) : GlobMatch(patterns[i], k)

\* C25: a report image is stored under a key that the wrapper builds for
\* no call and that no pattern of invalidate_expense_caches matches; an
\* entry of a wrapped operation is stored under a key that get_image_key
\* does not build and that no pattern of invalidate_report_images matches,
\* so that invalidate_report_images deletes report images only.
C25_NamespacesDistinct ==
    /\ \A k \in DOMAIN cache :
          IF cache[k].call.fn \in ReportTypes
          THEN /\ k \in AllImageKeys
               /\ k \notin AllWrapperKeys
               /\ \A a \in Scopes : ~Matched(ExpensePatterns(a[1], a[2], a[3]), k)
          ELSE /\ k \in AllWrapperKeys
               /\ k \notin AllImageKeys
               /\ \A a \in Scopes : ~Matched(ReportImagePatterns(a[1], a[2], a[3]), k)
    /\ last.op = "invalidate_report_images"
       => \A k \in Deleted(last) : last.before[k].call.fn \in ReportTypes
    /\ last.op = "invalidate_expense_caches"
       => ImageKeys(DeletePatterns(last.before,
                                   ExpensePatterns(last.args[1], last.args[2],
                                                   last.args[3])))
          = ImageKeys(last.before)

\* invalidate_report_images deletes the image of a report and the entry of
\* the wrapped operation that the report was drawn from stays
C25_Witness ==
    /\ last.op = "invalidate_report_images"
    /\ Deleted(last) # {}
    /\ DataKeys(cache) # {}
    /\ \E k \in DataKeys(cache) : k[1] \in {"daily_expenses", "monthly_expenses",
                                             "yearly_expenses"}

\* C26: when the calls of two requests for the same key overlap and both
\* miss, and the store of record is not written from the first GET to the
\* SET of a call, this call invokes the wrapped operation once, issues
\* its SET, returns what the store of record holds and leaves this value
\* under the key: so do both calls, and the entry after the last SET is
\* the value of the store of record.
C26_ConcurrentMissesBenign ==
    [][\A i \in Requests :
          (/\ inflight[i].phase = "loaded"
           /\ inflight'[i].phase = "done"
           /\ inflight[i].overlap
           /\ inflight[i].seen = StoreOfRecord)
          => LET call == inflight[i].call
                 value == Loader(cache, categories, expenses, call, FALSE)
             IN /\ ~last'.hit
                /\ last'.loads = 1
                /\ last'.cmds = <<Set(KeyOf(call))>>
                /\ last'.out = Recorded(call.fn, value)
                /\ inflight'[i].out = Recorded(call.fn, value)
                /\ KeyOf(call) \in DOMAIN cache'
                /\ cache'[KeyOf(call)] = Entry(call, value.v)]_vars

\* both requests have returned from calls for the same key that overlapped,
\* with an expense on record that was recorded before the first GET
C26_Witness ==
    /\ \A i \in Requests : /\ inflight[i].phase = "done"
                           /\ inflight[i].call.fn = "get_total_spent"
    /\ \A i \in Requests :
          /\ inflight[i].overlap
          /\ inflight[i].seen = StoreOfRecord
          /\ inflight[i].call = inflight[1].call
          /\ ValueOf([op |-> inflight[i].call.fn, out |-> inflight[i].out]) # 0
    /\ expenses # {}
    /\ last.cmds = <<Set(KeyOf(inflight[1].call))>>
    /\ KeyOf(inflight[1].call) \in DOMAIN cache

\* A call of the wrapper that missed and whose wrapped operation returned
\* None at its only invocation.
ReturnedNone(l) ==
    /\ l.op \in WrappedFns
    /\ ~l.hit
    /\ l.loads = 1
    /\ l.out.t = "none"

\* C27: a call of the wrapper whose wrapped operation returns None on a
\* miss issues no SET and no other command, leaves the store as it was and
\* returns None; the same call made next misses again and invokes the
\* wrapped operation again.
C27_NullNotCached ==
    [][/\ ReturnedNone(last')
          => /\ last'.cmds = <<>>
             /\ cache' = cache
             /\ last'.key \notin DOMAIN cache'
             /\ last'.out = Recorded(last'.op, NoneResult)
             /\ ~last'.raised
       /\ (/\ ReturnedNone(last)
           /\ last'.op = last.op
           /\ last'.key = last.key)
          => /\ ~last'.hit
             /\ last'.loads >= 1]_vars

\* get_expense_by_id of an expense that is not on record, called twice in
\* a row with a category on record: both calls invoked the operation
C27_Witness ==
    /\ ReturnedNone(last)
    /\ last.op = "get_expense_by_id"
    /\ last.loads_before = 1
    /\ last.key \notin DOMAIN cache
    /\ categories # {}

\* The call recorded in l took the except branch of the wrapper.
Excepted(l) == \E i \in 1..Len(l.cmds) : l.cmds[i].c = "logger.error"

\* C28: a call of the wrapper invokes the wrapped operation not at all on
\* a hit, once on a miss during which nothing raised, and twice when the
\* GET returned nothing and the first invocation, json.dumps or the SET
\* raised: the caller then receives what an invocation made after the
\* error returns or raises.
C28_LoaderInvocations ==
    (last.op \in WrappedFns \cup {"get_or_create_user"})
    => /\ last.hit => (last.loads = 0 /\ last.cmds = <<>>)
       /\ (~last.hit /\ ~Excepted(last)) => last.loads = 1
       /\ (Excepted(last) /\ ~GetRaised(last))
          => /\ ~last.hit
             /\ last.loads = 2
             /\ last.out \in LoaderOutcomes(last)
             /\ last.raised
                => (last.out.t = "raise" \/ Logged("DBError") \in
                                              {last.cmds[i] : i \in 1..Len(last.cmds)})

\* the first invocation raised and the caller received the value that the
\* second one returned
C28_Witness ==
    /\ last.op = "get_total_spent"
    /\ Excepted(last)
    /\ ~GetRaised(last)
    /\ last.cmds = <<Logged("DBError")>>
    /\ last.loads = 2
    /\ last.out.t = "val"
    /\ ValueOf(last) # 0

\* C29: the call of get_expense_by_id(E) that follows a delete_expense_by_id
\* of E that returned True returns None, and the one that follows an
\* update_expense_category(E, C, U) that returned the expense returns the
\* expense with category C, whatever was stored for E before the write.
C29_ByIdLookupFollowsWrites ==
    [][(last'.op = "get_expense_by_id")
       => /\ (/\ last.op = "delete_expense"
               /\ last.out.t # "raise"
               /\ last.args[1] = last'.args[1])
             => last'.out.t = "none"
          /\ (/\ last.op = "update_expense_category"
               /\ last.out.t = "val"
               /\ last.args[1] = last'.args[1])
             => /\ last'.out.t = "val"
                /\ ValueOf(last').category_id = last.args[2]]_vars

\* The category with this id was created and is no longer on record: it
\* was deleted by a delete_category that returned True (ids are never given
\* out twice).
GoneCategory(c) ==
    /\ c < nextCategoryId
    /\ \A x \in categories : x.id # c

DeleteCmd(l) == \E i \in 1..Len(l.cmds) : l.cmds[i].c = "delete"

\* C30 as stated: every add_expense with a category that delete_category
\* has deleted raises "Invalid category", writes no expense and issues no
\* DELETE.
C30_AlwaysInvalidCategory ==
    [][(last'.op = "add_expense" /\ GoneCategory(last'.args[6]))
       => /\ last'.out.t = "raise"
          /\ ValueOf(last') = "ValueError: Invalid category"
          /\ expenses' = expenses
          /\ ~DeleteCmd(last')]_vars

\* C30: after delete_category(C, U, N) returned True the category is not
\* on record and nothing is stored under the key of get_category_by_id(C,
\* U); every later add_expense with category C raises, writes no expense
\* and issues no command to the store, and what it raises is "Invalid
\* category" whenever the amount is positive (the amount is checked
\* first).
C30_DeletedCategoryRejected ==
    /\ []((last.op = "delete_category" /\ last.out.t = "val" /\ ValueOf(last))
          => /\ \A x \in categories : x.id # last.args[1]
             /\ LookupKey(last.args[1], last.args[2]) \notin DOMAIN cache)
    /\ [][(last'.op = "add_expense" /\ GoneCategory(last'.args[6]))
          => /\ last'.out.t = "raise"
             /\ ValueOf(last') = IF last'.args[5] > 0
                                 THEN "ValueError: Invalid category"
                                 ELSE "ValueError: Amount must be positive"
             /\ expenses' = expenses
             /\ nextExpenseId' = nextExpenseId
             /\ cache' = cache
             /\ last'.cmds = <<>>]_vars

\* add_expense with a positive amount was refused for a category that was
\* deleted, the user having another category on record
C30_Witness ==
    /\ last.op = "add_expense"
    /\ last.args[5] > 0
    /\ GoneCategory(last.args[6])
    /\ last.out.t = "raise"
    /\ \E x \in categories : x.user_id = last.args[1]

====
